---- MODULE Spec2Model ----
(***************************************************************************)
(* A model of the nv node runtime (src/nv/node.py, src/nv/utils.py): the   *)
(* Redis broker (pub/sub channels, the nodes database, the topics          *)
(* database), the per-process pub/sub loop, and the Node operations on     *)
(* topics, services and presence records.                                  *)
(*                                                                         *)
(* Text is carried as a sequence of fragments whose concatenation is the   *)
(* text, so that startswith and string concatenation are computed as the   *)
(* code computes them.  A uuid is one opaque fragment.                     *)
(***************************************************************************)
EXTENDS Integers, Sequences, FiniteSets, Bags, TLC

\* ------------------------------------------------------------------------
\* The universe of the model
\* ------------------------------------------------------------------------

\* Node instances and the operating-system processes that host them.
Nodes == {"n1", "n2", "n3"}
Procs == {"p1", "p2"}

\* The number of user messages published in one behaviour.
MaxMessages == 2

\* The number of call_service invocations in one behaviour; a call's number
\* stands for the uuid4 that is its request_id.
MaxCalls == 2
Calls == 1..MaxCalls

\* Node.call_service: event.wait(timeout=10), seconds.
ServiceTimeout == 10
\* handle_service_call: self._redis_topics.set(key, data, ex=60), seconds.
BytesExpiry == 60
\* Node._renew_node_information: ex=10, seconds.
RecordExpiry == 10
\* Node._register_node: create_loop_timer(interval=5, ...), seconds.
RenewInterval == 5
\* Node.__init__: time.sleep(1) between two looks at a record of the same name,
\* and DuplicateNodeNameException once more than 10 s have been spent.
PollSleep == 1
DuplicateWait == 10
\* Node.__init__: time.sleep(10) after a node_condition that returned False.
ConditionSleep == 10

\* workspace=None (an empty workspace string is None as well, node.py:149).
NoWorkspace == <<>>
Workspaces == {NoWorkspace, <<"w">>}

\* Topic names given to create_subscription, and the one given to publish.
TopicNames == {<<"t">>, <<"w", ".", "t">>}
PublishedNames == {<<"t">>}

Range(s) == {s[i] : i \in DOMAIN s}

StartsWith(s, prefix) ==
    /\ Len(prefix) <= Len(s)
    /\ SubSeq(s, 1, Len(prefix)) = prefix

\* ------------------------------------------------------------------------
\* Python values and the JSON codec
\* ------------------------------------------------------------------------

PyInt == [type |-> "int", val |-> <<"123">>]
PyStr == [type |-> "str", val |-> <<"Hello World">>]
PyList == [type |-> "list", val |-> <<"[1,2,3]">>]
PyNone == [type |-> "NoneType", val |-> <<"null">>]
PyBytes == [type |-> "bytes", val |-> <<"Hello World">>]
\* A byte string whose content happens to be a JSON document.
PyBytesDigits == [type |-> "bytes", val |-> <<"123">>]
\* A value orjson cannot serialise and Redis cannot send (an arbitrary object).
PyObject == [type |-> "object", val |-> <<"<object>">>]

Payloads == {PyStr, PyBytes, PyBytesDigits, PyObject}

Quote == "\""

\* A dict: its items are Python values.  The text of a JSON object is kept as
\* the fragment "{}" together with the JSON text of each member.
PyDict(items) == [type |-> "dict", val |-> <<"{}">>, items |-> items]

\* orjson.dumps succeeds on these types and raises TypeError on the others.
JsonSerialisable(v) ==
    IF v.type = "dict"
    THEN \A k \in DOMAIN v.items : v.items[k].type \in {"int", "str", "list", "NoneType"}
    ELSE v.type \in {"int", "str", "list", "NoneType"}

\* orjson.dumps(v): the JSON text of v.
json_dumps(v) ==
    IF v.type = "str" THEN <<Quote>> \o v.val \o <<Quote>> ELSE v.val

NoMembers == <<>>

json_dumps_members(v) ==
    IF v.type = "dict"
    THEN [k \in DOMAIN v.items |-> json_dumps(v.items[k])]
    ELSE NoMembers

\* The JSON documents that are not strings, and the values they denote.
JsonLiterals == {PyInt, PyList, PyNone}

IsJsonString(text) ==
    /\ Len(text) >= 2
    /\ text[1] = Quote
    /\ text[Len(text)] = Quote
    /\ \A i \in 2..(Len(text) - 1) : text[i] # Quote

IsJson(text) == IsJsonString(text) \/ \E v \in JsonLiterals : v.val = text

\* orjson.loads(text), for a text that is a JSON document.
json_loads(text) ==
    IF IsJsonString(text)
    THEN [type |-> "str", val |-> SubSeq(text, 2, Len(text) - 1)]
    ELSE CHOOSE v \in JsonLiterals : v.val = text

\* Node._encode_pubsub_message: the JSON text, or the message itself when
\* orjson raises TypeError.  The result is what redis-py is asked to send:
\* bytes (kind "bytes"), or an object it refuses with DataError.
encode_pubsub_message(message) ==
    IF JsonSerialisable(message)
    THEN [kind |-> "bytes", text |-> json_dumps(message),
          members |-> json_dumps_members(message)]
    ELSE IF message.type = "bytes"
         THEN [kind |-> "bytes", text |-> message.val, members |-> NoMembers]
         ELSE [kind |-> "unsendable", text |-> message.val, members |-> NoMembers]

\* Node._decode_pubsub_message: the parsed JSON, or the received bytes as they
\* are when they do not parse.
decode_pubsub_message(data) ==
    IF data.text = <<"{}">>
    THEN PyDict([k \in DOMAIN data.members |-> json_loads(data.members[k])])
    ELSE IF IsJson(data.text)
         THEN json_loads(data.text)
         ELSE [type |-> "bytes", val |-> data.text]

PyText(text) == [type |-> "str", val |-> text]

\* str(uuid.uuid4()) of the c-th request, and the request a uuid belongs to.
Uuid(c) == <<ToString(c)>>
CallOf(text) == CHOOSE c \in Calls : Uuid(c) = text

BytesPrefix == <<"NV_BYTES:">>

\* ------------------------------------------------------------------------
\* State
\* ------------------------------------------------------------------------

VARIABLES
    name,               \* Node.name
    proc,               \* the process each node instance lives in
    workspace,          \* Node.workspace
    skip_registration,  \* Node.skip_registration
    keep_old_parameters,\* the keep_old_parameters argument of Node.__init__
    mpc,                \* where each node's calling thread is
    marg,               \* the arguments of the operation that thread is in
    subscriptions,      \* Node._subscriptions: channel -> list of callbacks
    publishers,         \* Node._publishers: the channels published on
    channels,           \* Node._pubsub.channels of each process: channel -> handler's node
    inbox,              \* frames Redis has sent to each process's pub/sub connection
    loop,               \* the state of each process's "Pubsub Loop" thread
    node_registered,    \* Node.node_registered
    stopped,            \* Node.stopped (a threading.Event)
    hb,                 \* Node._renew_node_information_timer: its thread and its stop flag
    redis_nodes,        \* Redis database 3: node name -> presence record and its expiry
    redis_topics,       \* Redis database 0: key -> stored bytes and their expiry
    services,           \* Node._services: service name -> srv:// identifier
    service_locks,      \* Node._service_locks: service name -> holder (0: unlocked)
    service_requests,   \* Node._service_requests: request -> pending entry
    calls,              \* the threads inside Node.call_service
    srv,                \* the handle_service_call worker thread of each request
    rsp,                \* the _handle_service_callback worker thread of each request
    term,               \* the _handle_terminate_callback worker thread of each message
    handles,            \* the Subscription objects create_subscription has returned
    signal_handler,     \* the node whose _sigterm_handler each process has installed
    environ,            \* os.environ of each process: variable -> value
    redis_parameters,   \* Redis database 1: key -> the encoded {value, description}
    parameters,         \* history: (node name, parameter name) -> the value last set
    published,          \* history: the user messages published, in order
    expected,           \* history: (message, node, callback) registered at publish time
    received,           \* history: the callback invocations, a bag
    invocations,        \* history: the service handler invocations, a bag
    sent                \* history: the frames handed to Redis PUBLISH by service code

configVars == <<name, proc, workspace, skip_registration, keep_old_parameters, environ>>
teardownVars == <<term, handles, signal_handler>>
parameterVars == <<redis_parameters, parameters>>
threadVars == <<mpc, marg>>
pubsubVars == <<subscriptions, publishers, channels, inbox, loop>>
presenceVars == <<node_registered, stopped, hb, redis_nodes>>
serviceVars == <<services, service_locks, service_requests, calls, srv, rsp>>
topicHistory == <<published, expected, received>>
serviceHistory == <<invocations, sent>>

vars == <<name, proc, workspace, skip_registration, keep_old_parameters, environ, mpc, marg,
          subscriptions, publishers, channels,
          inbox, loop, node_registered, stopped, hb, redis_nodes, redis_topics,
          services, service_locks, service_requests, calls, srv, rsp,
          term, handles, signal_handler, redis_parameters, parameters,
          published, expected, received, invocations, sent>>

\* ------------------------------------------------------------------------
\* Callbacks and channels
\* ------------------------------------------------------------------------

\* A user's service handler: what it returns, or the message of the exception
\* it raises.
Returns(v) == [raises |-> FALSE, value |-> v]
Raises(e) == [raises |-> TRUE, value |-> PyText(e)]
NoFunction == Returns(PyNone)

UserCallback(n) ==
    [kind |-> "user", id |-> n, callback_function |-> NoFunction,
     allow_parallel_calls |-> TRUE]
ResponseCallback ==
    [kind |-> "response", id |-> "_handle_service_callback",
     callback_function |-> NoFunction, allow_parallel_calls |-> TRUE]
TerminateCallback ==
    [kind |-> "terminate", id |-> "_handle_terminate_callback",
     callback_function |-> NoFunction, allow_parallel_calls |-> TRUE]
\* The closure handle_service_call that create_service makes for a service.
ServiceCallback(service_name, callback_function, allow_parallel_calls) ==
    [kind |-> "service", id |-> service_name, callback_function |-> callback_function,
     allow_parallel_calls |-> allow_parallel_calls]

ServicePrefix == <<"s", "r", "v", ":", "/", "/">>

\* Node.service_response_channel: "srv://" + uuid4, one per node instance.
service_response_channel(n) == ServicePrefix \o <<n>>

\* create_service: service_id = "srv://" + uuid4, one per created service.
service_id(n, service_name) == ServicePrefix \o <<n, "/", service_name>>

TerminateTopic == <<"n", "v", "_", "t", "e", "r", "m", "i", "n", "a", "t", "e">>

\* A resolution that puts the node name in the place of the leading ".".
get_absolute_topic_Replaces(n, topic_name) ==
    LET relative == IF StartsWith(topic_name, <<".">>)
                    THEN <<name[n]>> \o Tail(topic_name)
                    ELSE topic_name
    IN  IF workspace[n] # NoWorkspace /\ ~StartsWith(relative, workspace[n])
        THEN workspace[n] \o <<".">> \o relative
        ELSE relative

\* A resolution in which the workspace is looked at only for names that do
\* not begin with ".".
get_absolute_topic_Alternative(n, topic_name) ==
    IF StartsWith(topic_name, <<".">>)
    THEN <<name[n]>> \o topic_name
    ELSE IF workspace[n] # NoWorkspace /\ ~StartsWith(topic_name, workspace[n])
         THEN workspace[n] \o <<".">> \o topic_name
         ELSE topic_name

\* Node.get_absolute_topic
get_absolute_topic(n, topic_name) ==
    LET relative == IF StartsWith(topic_name, <<".">>)
                    THEN <<name[n]>> \o topic_name
                    ELSE topic_name
    IN  IF workspace[n] # NoWorkspace /\ ~StartsWith(relative, workspace[n])
        THEN workspace[n] \o <<".">> \o relative
        ELSE relative

\* Node._subscriptions and Node._pubsub.channels once Node.__init__ has
\* subscribed the response channel and "nv_terminate".
InitialSubscriptions(n) ==
    (service_response_channel(n) :> <<ResponseCallback>>)
        @@ (TerminateTopic :> <<TerminateCallback>>)

\* The handlers Node.__init__ of n registers on its process's pub/sub connection.
SubscribeInitial(chans, n) ==
    (service_response_channel(n) :> n) @@ (TerminateTopic :> n) @@ chans

\* The nodes in the order they were constructed.
ConstructionOrder == <<"n1", "n2", "n3">>

RECURSIVE InitialChannels(_, _, _)
InitialChannels(p, pr, k) ==
    IF k = 0
    THEN <<>>
    ELSE IF pr[ConstructionOrder[k]] = p
         THEN SubscribeInitial(InitialChannels(p, pr, k - 1), ConstructionOrder[k])
         ELSE InitialChannels(p, pr, k - 1)

NoArgs == [topic_name |-> <<>>, callback_function |-> NoFunction, service_name |-> "",
           info |-> [services |-> <<>>, publishers |-> {}], elapsed |-> 0, remaining |-> 0,
           signal |-> FALSE,
           read |-> [name |-> <<>>, node_name |-> "", fail_if_not_found |-> FALSE],
           delete |-> [none |-> FALSE, node_name |-> ""],
           filepath |-> <<>>, parameters |-> <<>>,
           returned |-> PyNone, counter |-> 0, threshold |-> 0]

\* ------------------------------------------------------------------------
\* Redis PUBLISH: one frame to every pub/sub connection subscribed to ch
\* ------------------------------------------------------------------------

RedisPublish(ib, ch, frame) ==
    [p \in Procs |-> IF ch \in DOMAIN channels[p] THEN Append(ib[p], frame) ELSE ib[p]]

\* ------------------------------------------------------------------------
\* Node._handle_subscription_callback: one thread per callback of the channel
\* ------------------------------------------------------------------------

RECURSIVE AddInvocations(_, _, _, _, _)
AddInvocations(bag, cbs, mid, n, value) ==
    IF cbs = <<>>
    THEN bag
    ELSE AddInvocations(
            IF Head(cbs).kind = "user"
            THEN bag (+) SetToBag({[mid |-> mid, node |-> n, cb |-> Head(cbs), value |-> value]})
            ELSE bag,
            Tail(cbs), mid, n, value)

NoWorker == [pc |-> "none", node |-> "", service_name |-> "",
             callback_function |-> NoFunction, allow_parallel_calls |-> TRUE,
             response_topic |-> <<>>, args |-> PyNone, result |-> "", data |-> PyNone,
             returned |-> PyNone]

\* The threads started with handle_service_call as the callback.
RECURSIVE StartServiceWorkers(_, _, _, _)
StartServiceWorkers(workers, cbs, n, message) ==
    IF cbs = <<>>
    THEN workers
    ELSE StartServiceWorkers(
            IF Head(cbs).kind = "service"
            THEN [workers EXCEPT ![CallOf(message.items.request_id.val)] =
                    [NoWorker EXCEPT !.pc = "acquire", !.node = n,
                                     !.service_name = Head(cbs).id,
                                     !.callback_function = Head(cbs).callback_function,
                                     !.allow_parallel_calls = Head(cbs).allow_parallel_calls,
                                     !.response_topic = message.items.response_topic.val,
                                     !.args = message.items.args]]
            ELSE workers,
            Tail(cbs), n, message)

NoReply == [pc |-> "none", node |-> "", result |-> "", data |-> PyNone]

\* The user messages of one behaviour, by their number.
Messages == 1..MaxMessages

NoTerminate == [pc |-> "none", node |-> ""]

\* The threads started with Node._handle_terminate_callback as the callback:
\* message.get("node") == self.name decides whether destroy_node is called (a
\* message that is no dict raises AttributeError, which ends the thread).
RECURSIVE StartTerminateWorkers(_, _, _, _, _)
StartTerminateWorkers(workers, cbs, mid, n, message) ==
    IF cbs = <<>>
    THEN workers
    ELSE StartTerminateWorkers(
            IF /\ Head(cbs).kind = "terminate"
               /\ message.type = "dict"
               /\ "node" \in DOMAIN message.items
               /\ message.items.node = PyText(<<name[n]>>)
            THEN [workers EXCEPT ![mid] = [pc |-> "destroy_node", node |-> n]]
            ELSE workers,
            Tail(cbs), mid, n, message)

\* The threads started with Node._handle_service_callback as the callback.
RECURSIVE StartResponseWorkers(_, _, _, _)
StartResponseWorkers(workers, cbs, n, message) ==
    IF cbs = <<>>
    THEN workers
    ELSE StartResponseWorkers(
            IF Head(cbs).kind = "response"
            THEN [workers EXCEPT ![CallOf(message.items.request_id.val)] =
                    [pc |-> "start", node |-> n,
                     result |-> message.items.result.val[1],
                     data |-> message.items.data]]
            ELSE workers,
            Tail(cbs), n, message)

\* A loop that runs the callbacks itself: it takes no frame while a callback
\* it started has not returned.
Dispatch_WaitsForCallbacks(p) ==
    /\ loop[p] = "running"
    /\ inbox[p] # <<>>
    /\ \A c \in Calls :
            srv[c].pc \in {"acquire", "running", "publish", "release"} => proc[srv[c].node] # p
    /\ LET frame == Head(inbox[p])
           message == decode_pubsub_message(frame.data)
       IN  /\ inbox' = [inbox EXCEPT ![p] = Tail(@)]
           /\ IF frame.ch \notin DOMAIN channels[p]
              THEN \* unsubscribed meanwhile: redis-py has no handler, the frame is dropped
                   UNCHANGED <<received, srv, rsp, term, loop>>
              ELSE LET n == channels[p][frame.ch]
                   IN  IF frame.ch \in DOMAIN subscriptions[n]
                       THEN LET cbs == subscriptions[n][frame.ch]
                            IN  /\ received' = AddInvocations(received, cbs, frame.mid, n, message)
                                /\ srv' = StartServiceWorkers(srv, cbs, n, message)
                                /\ rsp' = StartResponseWorkers(rsp, cbs, n, message)
                                /\ term' = StartTerminateWorkers(term, cbs, frame.mid, n, message)
                                /\ UNCHANGED loop
                       ELSE \* KeyError leaves _pubsub_loop, which catches RuntimeError only
                            /\ loop' = [loop EXCEPT ![p] = "dead"]
                            /\ UNCHANGED <<received, srv, rsp, term>>
    /\ UNCHANGED <<configVars, handles, signal_handler, parameterVars,
                   threadVars, subscriptions, publishers, channels,
                   presenceVars, redis_topics, services, service_locks,
                   service_requests, calls, published, expected, serviceHistory>>

\* One iteration of Node._pubsub_loop of process p: get_message() runs the
\* handler registered for the frame's channel, a bound method of node n.
Dispatch(p) ==
    /\ loop[p] = "running"
    /\ inbox[p] # <<>>
    /\ LET frame == Head(inbox[p])
           message == decode_pubsub_message(frame.data)
       IN  /\ inbox' = [inbox EXCEPT ![p] = Tail(@)]
           /\ IF frame.ch \notin DOMAIN channels[p]
              THEN \* unsubscribed meanwhile: redis-py has no handler, the frame is dropped
                   UNCHANGED <<received, srv, rsp, term, loop>>
              ELSE LET n == channels[p][frame.ch]
                   IN  IF frame.ch \in DOMAIN subscriptions[n]
                       THEN LET cbs == subscriptions[n][frame.ch]
                            IN  /\ received' = AddInvocations(received, cbs, frame.mid, n, message)
                                /\ srv' = StartServiceWorkers(srv, cbs, n, message)
                                /\ rsp' = StartResponseWorkers(rsp, cbs, n, message)
                                /\ term' = StartTerminateWorkers(term, cbs, frame.mid, n, message)
                                /\ UNCHANGED loop
                       ELSE \* KeyError leaves _pubsub_loop, which catches RuntimeError only
                            /\ loop' = [loop EXCEPT ![p] = "dead"]
                            /\ UNCHANGED <<received, srv, rsp, term>>
    /\ UNCHANGED <<configVars, handles, signal_handler, parameterVars,
                   threadVars, subscriptions, publishers, channels,
                   presenceVars, redis_topics, services, service_locks,
                   service_requests, calls, published, expected, serviceHistory>>

\* ------------------------------------------------------------------------
\* Node.create_subscription
\* ------------------------------------------------------------------------

\* Up to Node._pubsub.subscribe(**{topic_name: self._handle_subscription_callback}):
\* the handler registered for the channel is this node's, whichever node's it was.
\* When the loop thread has died, Node._pubsub_thread.start() raises
\* RuntimeError and nothing is subscribed.
CreateSubscriptionSubscribe(n, topic_name, callback_function) ==
    /\ mpc[n] = "ready"
    /\ loop[proc[n]] = "running"
    /\ \A h \in DOMAIN handles[n] : handles[n][h].callback_function # callback_function
    /\ channels' = [channels EXCEPT ![proc[n]] = (topic_name :> n) @@ @]
    /\ mpc' = [mpc EXCEPT ![n] = "create_subscription"]
    /\ marg' = [marg EXCEPT ![n] = [NoArgs EXCEPT !.topic_name = topic_name,
                                                  !.callback_function = callback_function]]
    /\ UNCHANGED <<configVars, teardownVars, parameterVars,
                   subscriptions, publishers, inbox, loop, presenceVars,
                   redis_topics, serviceVars, topicHistory, serviceHistory>>

AppendCallback(subs, topic_name, cb) ==
    IF topic_name \in DOMAIN subs
    THEN [subs EXCEPT ![topic_name] = Append(@, cb)]
    ELSE (topic_name :> <<cb>>) @@ subs

\* The rest of create_subscription: the callback joins Node._subscriptions and
\* a Subscription object for the pair is returned.
CreateSubscriptionAppend(n) ==
    /\ mpc[n] = "create_subscription"
    /\ subscriptions' = [subscriptions EXCEPT ![n] =
            AppendCallback(@, marg[n].topic_name, marg[n].callback_function)]
    /\ handles' = [handles EXCEPT ![n] = Append(@,
            [topic_name |-> marg[n].topic_name,
             callback_function |-> marg[n].callback_function,
             subscribed |-> TRUE, returned |-> "none"])]
    /\ mpc' = [mpc EXCEPT ![n] = "ready"]
    /\ marg' = [marg EXCEPT ![n] = NoArgs]
    /\ UNCHANGED <<configVars, term, signal_handler, parameterVars,
                   publishers, channels, inbox, loop, presenceVars,
                   redis_topics, serviceVars, topicHistory, serviceHistory>>

\* An unsubscribe that drops every callback of the handle's topic.
Unsubscribe_WholeTopic(n, h) ==
    /\ mpc[n] = "ready"
    /\ h \in DOMAIN handles[n]
    /\ LET sub == handles[n][h]
       IN  IF ~sub.subscribed
           THEN /\ handles' = [handles EXCEPT ![n][h].returned = "False"]
                /\ UNCHANGED subscriptions
           ELSE IF sub.topic_name \notin DOMAIN subscriptions[n]
           THEN /\ handles' = [handles EXCEPT ![n][h].returned = "KeyError"]
                /\ UNCHANGED subscriptions
           ELSE /\ subscriptions' = [subscriptions EXCEPT ![n][sub.topic_name] = <<>>]
                /\ handles' = [handles EXCEPT ![n][h].subscribed = FALSE,
                                               ![n][h].returned = "True"]
    /\ UNCHANGED <<configVars, term, signal_handler, parameterVars, threadVars,
                   publishers, channels, inbox, loop, presenceVars,
                   redis_topics, serviceVars, topicHistory, serviceHistory>>

\* Subscription.unsubscribe on the h-th Subscription object node n was given:
\* what it returns or raises is kept in the handle.
Unsubscribe(n, h) ==
    /\ mpc[n] = "ready"
    /\ h \in DOMAIN handles[n]
    /\ LET sub == handles[n][h]
       IN  IF ~sub.subscribed
           THEN /\ handles' = [handles EXCEPT ![n][h].returned = "False"]
                /\ UNCHANGED subscriptions
           ELSE IF sub.topic_name \notin DOMAIN subscriptions[n]
           THEN /\ handles' = [handles EXCEPT ![n][h].returned = "KeyError"]
                /\ UNCHANGED subscriptions
           ELSE IF sub.callback_function \notin Range(subscriptions[n][sub.topic_name])
           THEN /\ handles' = [handles EXCEPT ![n][h].returned = "ValueError"]
                /\ UNCHANGED subscriptions
           ELSE \* list.remove: the first item equal to the callback goes
                /\ LET list == subscriptions[n][sub.topic_name]
                       i == CHOOSE i \in DOMAIN list :
                                /\ list[i] = sub.callback_function
                                /\ \A j \in 1..(i - 1) : list[j] # sub.callback_function
                   IN  subscriptions' = [subscriptions EXCEPT ![n][sub.topic_name] =
                            SubSeq(list, 1, i - 1) \o SubSeq(list, i + 1, Len(list))]
                /\ handles' = [handles EXCEPT ![n][h].subscribed = FALSE,
                                               ![n][h].returned = "True"]
    /\ UNCHANGED <<configVars, term, signal_handler, parameterVars, threadVars,
                   publishers, channels, inbox, loop, presenceVars,
                   redis_topics, serviceVars, topicHistory, serviceHistory>>

\* Node.destroy_subscription: the process's connection unsubscribes from the
\* channel, and the node forgets every callback of the topic.
DestroySubscription(n, topic_name) ==
    /\ mpc[n] = "ready"
    /\ channels' = [channels EXCEPT ![proc[n]] =
            [ch \in DOMAIN @ \ {topic_name} |-> @[ch]]]
    /\ subscriptions' = [subscriptions EXCEPT ![n] =
            [ch \in DOMAIN @ \ {topic_name} |-> @[ch]]]
    /\ UNCHANGED <<configVars, teardownVars, parameterVars, threadVars,
                   publishers, inbox, loop, presenceVars,
                   redis_topics, serviceVars, topicHistory, serviceHistory>>

\* ------------------------------------------------------------------------
\* Node.publish
\* ------------------------------------------------------------------------

Subscribed(m, ch) ==
    IF ch \in DOMAIN subscriptions[m]
    THEN {cb \in Range(subscriptions[m][ch]) : cb.kind = "user"}
    ELSE {}

Publish(n, topic_name, message) ==
    /\ mpc[n] = "ready"
    /\ Len(published) < MaxMessages
    /\ LET ch == get_absolute_topic(n, topic_name)
           data == encode_pubsub_message(message)
           mid == Len(published) + 1
       IN  /\ publishers' = [publishers EXCEPT ![n] = @ \cup {ch}]
           /\ IF data.kind = "bytes"
              THEN /\ inbox' = RedisPublish(inbox, ch, [ch |-> ch, mid |-> mid, data |-> data])
                   /\ published' = Append(published,
                        [ch |-> ch, payload |-> message, node |-> n, topic_name |-> topic_name,
                         stopped |-> {m \in Nodes : stopped[m]},
                         running |-> {m \in Nodes : /\ node_registered[m]
                                                    /\ ~stopped[m]
                                                    /\ mpc[m] \in {"ready", "spin"}}])
                   /\ expected' = expected \cup
                        UNION {{[mid |-> mid, node |-> m, cb |-> cb] : cb \in Subscribed(m, ch)}
                                  : m \in Nodes}
              ELSE \* redis.exceptions.DataError: nothing is sent
                   UNCHANGED <<inbox, published, expected>>
    /\ UNCHANGED <<configVars, teardownVars, parameterVars,
                   threadVars, subscriptions, channels, loop, presenceVars,
                   redis_topics, serviceVars, received, serviceHistory>>

\* ------------------------------------------------------------------------
\* Presence records
\* ------------------------------------------------------------------------

\* Node.get_node_information, as far as the record's readers use it.  The
\* "services" item is the live Node._services dict, "publishers" the keys of
\* the live Node._publishers dict.
get_node_information(n) == [services |-> services[n], publishers |-> publishers[n]]

NoInformation == [services |-> <<>>, publishers |-> {}]

NoTimer == [pc |-> "off", remaining |-> 0, stopped |-> FALSE, info |-> NoInformation]

\* self._redis_nodes.set(self.name, json.dumps(info), ex=10)
RedisSetNode(db, key, info) == (key :> [info |-> info, ttl |-> RecordExpiry]) @@ db

\* A loop that sleeps the whole interval and calls the function whether or
\* not stop() was called meanwhile.
HeartbeatWake_IgnoresStop(n) ==
    /\ hb[n].pc = "wait"
    /\ hb[n].remaining = 0
    /\ hb' = [hb EXCEPT ![n] =
            [@ EXCEPT !.pc = "write", !.remaining = 0, !.info = get_node_information(n)]]
    /\ UNCHANGED <<configVars, teardownVars, parameterVars,
                   threadVars, pubsubVars, node_registered, stopped,
                   redis_nodes, redis_topics, serviceVars, topicHistory, serviceHistory>>

\* LoopTimer._run of the renewal timer: stopped.wait(interval) returns, and
\* _renew_node_information serialises the node's information.
HeartbeatWake(n) ==
    /\ hb[n].pc = "wait"
    /\ hb[n].stopped \/ hb[n].remaining = 0
    /\ hb' = [hb EXCEPT ![n] =
            IF hb[n].stopped
            THEN [@ EXCEPT !.pc = "exited", !.remaining = 0]
            ELSE [@ EXCEPT !.pc = "write", !.remaining = 0,
                           !.info = get_node_information(n)]]
    /\ UNCHANGED <<configVars, teardownVars, parameterVars,
                   threadVars, pubsubVars, node_registered, stopped,
                   redis_nodes, redis_topics, serviceVars, topicHistory, serviceHistory>>

\* ... and writes the record, then waits for the next interval.
HeartbeatWrite(n) ==
    /\ hb[n].pc = "write"
    /\ redis_nodes' = RedisSetNode(redis_nodes, name[n], hb[n].info)
    /\ hb' = [hb EXCEPT ![n] =
            [@ EXCEPT !.pc = "wait", !.remaining = RenewInterval, !.info = NoInformation]]
    /\ UNCHANGED <<configVars, teardownVars, parameterVars,
                   threadVars, pubsubVars, node_registered, stopped,
                   redis_topics, serviceVars, topicHistory, serviceHistory>>

\* ------------------------------------------------------------------------
\* Node.create_service
\* ------------------------------------------------------------------------

\* create_subscription(service_id, handle_service_call), then
\* self._services[service_name] = service_id, then the information
\* _renew_node_information serialises.
CreateServiceSubscribe(n, service_name, callback_function, allow_parallel_calls) ==
    /\ mpc[n] = "ready"
    /\ loop[proc[n]] = "running"
    /\ service_name \notin DOMAIN services[n]
    /\ LET id == service_id(n, service_name)
       IN  /\ channels' = [channels EXCEPT ![proc[n]] = (id :> n) @@ @]
           /\ subscriptions' = [subscriptions EXCEPT ![n] =
                AppendCallback(@, id,
                    ServiceCallback(service_name, callback_function, allow_parallel_calls))]
           /\ services' = [services EXCEPT ![n] = (service_name :> id) @@ @]
           /\ marg' = [marg EXCEPT ![n] =
                [NoArgs EXCEPT !.service_name = service_name,
                               !.info = [services |-> (service_name :> id) @@ services[n],
                                         publishers |-> publishers[n]]]]
    /\ mpc' = [mpc EXCEPT ![n] = "create_service_renew"]
    /\ UNCHANGED <<configVars, teardownVars, parameterVars,
                   publishers, inbox, loop, presenceVars, redis_topics,
                   service_locks, service_requests, calls, srv, rsp,
                   topicHistory, serviceHistory>>

\* self._renew_node_information(): the record is written
CreateServiceRenew(n) ==
    /\ mpc[n] = "create_service_renew"
    /\ redis_nodes' = RedisSetNode(redis_nodes, name[n], marg[n].info)
    /\ mpc' = [mpc EXCEPT ![n] = "create_service_lock"]
    /\ UNCHANGED <<configVars, teardownVars, parameterVars,
                   marg, pubsubVars, node_registered, stopped, hb,
                   redis_topics, serviceVars, topicHistory, serviceHistory>>

\* self._service_locks[service_name] = threading.Lock()
CreateServiceLock(n) ==
    /\ mpc[n] = "create_service_lock"
    /\ service_locks' = [service_locks EXCEPT ![n] = (marg[n].service_name :> 0) @@ @]
    /\ mpc' = [mpc EXCEPT ![n] = "ready"]
    /\ marg' = [marg EXCEPT ![n] = NoArgs]
    /\ UNCHANGED <<configVars, teardownVars, parameterVars,
                   pubsubVars, presenceVars, redis_topics, services,
                   service_requests, calls, srv, rsp, topicHistory, serviceHistory>>

\* ------------------------------------------------------------------------
\* handle_service_call, the closure create_service subscribes
\* ------------------------------------------------------------------------

\* A faulty variant of the step below, whose acquire does not wait for the
\* mutex to be free.
HandleServiceCallAcquire_NoMutex(c) ==
    /\ srv[c].pc = "acquire"
    /\ LET n == srv[c].node
           s == srv[c].service_name
       IN  IF srv[c].allow_parallel_calls
           THEN /\ srv' = [srv EXCEPT ![c].pc = "running"]
                /\ invocations' = invocations (+) SetToBag({[request |-> c, node |-> n,
                        service_name |-> s, args |-> srv[c].args]})
                /\ UNCHANGED service_locks
           ELSE IF s \notin DOMAIN service_locks[n]
                THEN /\ srv' = [srv EXCEPT ![c].pc = "KeyError"]
                     /\ UNCHANGED <<service_locks, invocations>>
                ELSE /\ service_locks' = [service_locks EXCEPT ![n][s] = c]
                     /\ srv' = [srv EXCEPT ![c].pc = "running"]
                     /\ invocations' = invocations (+) SetToBag({[request |-> c, node |-> n,
                             service_name |-> s, args |-> srv[c].args]})
    /\ UNCHANGED <<configVars, teardownVars, parameterVars,
                   threadVars, pubsubVars, presenceVars, redis_topics,
                   services, service_requests, calls, rsp, topicHistory, sent>>

\* if not allow_parallel_calls: self._service_locks[service_name].acquire();
\* then the handler is entered with the request's args and kwargs.
HandleServiceCallAcquire(c) ==
    /\ srv[c].pc = "acquire"
    /\ LET n == srv[c].node
           s == srv[c].service_name
       IN  IF srv[c].allow_parallel_calls
           THEN /\ srv' = [srv EXCEPT ![c].pc = "running"]
                /\ invocations' = invocations (+) SetToBag({[request |-> c, node |-> n,
                        service_name |-> s, args |-> srv[c].args]})
                /\ UNCHANGED service_locks
           ELSE IF s \notin DOMAIN service_locks[n]
                THEN \* KeyError ends the thread
                     /\ srv' = [srv EXCEPT ![c].pc = "KeyError"]
                     /\ UNCHANGED <<service_locks, invocations>>
                ELSE /\ service_locks[n][s] = 0
                     /\ service_locks' = [service_locks EXCEPT ![n][s] = c]
                     /\ srv' = [srv EXCEPT ![c].pc = "running"]
                     /\ invocations' = invocations (+) SetToBag({[request |-> c, node |-> n,
                             service_name |-> s, args |-> srv[c].args]})
    /\ UNCHANGED <<configVars, teardownVars, parameterVars,
                   threadVars, pubsubVars, presenceVars, redis_topics,
                   services, service_requests, calls, rsp, topicHistory, sent>>

\* The handler returns data; bytes go to the topics database under a fresh
\* key, and the key takes their place in the response.
HandleServiceCallReturn(c) ==
    /\ srv[c].pc = "running"
    /\ ~srv[c].callback_function.raises
    /\ LET data == srv[c].callback_function.value
           key == BytesPrefix \o Uuid(c)
       IN
       IF data.type = "bytes"
       THEN     /\ redis_topics' = (key :> [data |-> data.val, ttl |-> BytesExpiry]) @@ redis_topics
                /\ srv' = [srv EXCEPT ![c].pc = "publish", ![c].result = "success",
                                      ![c].returned = data, ![c].data = PyText(key)]
       ELSE /\ srv' = [srv EXCEPT ![c].pc = "publish", ![c].result = "success",
                                  ![c].returned = data, ![c].data = data]
            /\ UNCHANGED redis_topics
    /\ UNCHANGED <<configVars, teardownVars, parameterVars,
                   threadVars, pubsubVars, presenceVars, services,
                   service_locks, service_requests, calls, rsp, topicHistory,
                   serviceHistory>>

\* The handler raises e: the response carries str(e).
HandleServiceCallRaise(c) ==
    /\ srv[c].pc = "running"
    /\ srv[c].callback_function.raises
    /\ srv' = [srv EXCEPT ![c].pc = "publish", ![c].result = "error",
                          ![c].data = srv[c].callback_function.value]
    /\ UNCHANGED <<configVars, teardownVars, parameterVars,
                   threadVars, pubsubVars, presenceVars, redis_topics,
                   services, service_locks, service_requests, calls, rsp,
                   topicHistory, serviceHistory>>

\* self.publish(response_topic, {"result": ..., "data": ..., "request_id": ...});
\* the error path returns here, the success path goes on to release the lock.
HandleServiceCallPublish(c) ==
    /\ srv[c].pc = "publish"
    /\ LET n == srv[c].node
           ch == get_absolute_topic(n, srv[c].response_topic)
           data == encode_pubsub_message(PyDict(
                      [result |-> PyText(<<srv[c].result>>), data |-> srv[c].data,
                       request_id |-> PyText(Uuid(c))]))
           frame == [ch |-> ch, mid |-> 0, data |-> data]
       IN  /\ publishers' = [publishers EXCEPT ![n] = @ \cup {ch}]
           /\ IF data.kind = "bytes"
              THEN /\ inbox' = RedisPublish(inbox, ch, frame)
                   /\ sent' = sent (+) SetToBag({[by |-> "server", request |-> c, ch |-> ch,
                                                  data |-> data]})
                   /\ srv' = [srv EXCEPT ![c].pc =
                        IF srv[c].result = "error" \/ srv[c].allow_parallel_calls
                        THEN "done" ELSE "release"]
              ELSE \* redis.exceptions.DataError ends the thread
                   /\ srv' = [srv EXCEPT ![c].pc = "DataError"]
                   /\ UNCHANGED <<inbox, sent>>
    /\ UNCHANGED <<configVars, teardownVars, parameterVars,
                   threadVars, subscriptions, channels, loop, presenceVars,
                   redis_topics, services, service_locks, service_requests, calls, rsp,
                   topicHistory, invocations>>

\* self._service_locks[service_name].release()
HandleServiceCallRelease(c) ==
    /\ srv[c].pc = "release"
    /\ service_locks' = [service_locks EXCEPT ![srv[c].node][srv[c].service_name] = 0]
    /\ srv' = [srv EXCEPT ![c].pc = "done"]
    /\ UNCHANGED <<configVars, teardownVars, parameterVars,
                   threadVars, pubsubVars, presenceVars, redis_topics,
                   services, service_requests, calls, rsp, topicHistory, serviceHistory>>

\* ------------------------------------------------------------------------
\* Node.__init__
\* ------------------------------------------------------------------------

\* self.check_node_exists(self.name)
check_node_exists(node_name) == node_name \in DOMAIN redis_nodes

\* Node.get_topics: the channels the presence records give as published on,
\* but for those that begin with "srv://".
get_topics ==
    {t \in UNION {redis_nodes[k].info.publishers : k \in DOMAIN redis_nodes} :
        ~StartsWith(t, ServicePrefix)}

\* A constructor that calls node_condition once and goes on whatever it
\* returned.
NodeCondition_Once(n, threshold) ==
    /\ mpc[n] = "condition"
    /\ marg[n].counter = 0 \/ threshold = marg[n].threshold
    /\ signal_handler' = [signal_handler EXCEPT ![proc[n]] = n]
    /\ marg' = [marg EXCEPT ![n].counter = @ + 1, ![n].threshold = threshold]
    /\ mpc' = [mpc EXCEPT ![n] = "new"]
    /\ UNCHANGED <<configVars, term, handles, parameterVars,
                   pubsubVars, presenceVars, redis_topics,
                   serviceVars, topicHistory, serviceHistory>>

\* One pass of `while not self.node_condition(): time.sleep(10)`, and before
\* the first pass the start of the constructor, which binds the signal
\* handlers to this node.  node_condition is the hook of the node's class:
\* Node's returns True (threshold 0), and the one of a class like the test's
\* ConditionalNode counts its calls and returns counter > threshold.
NodeCondition(n, threshold) ==
    /\ mpc[n] = "condition"
    /\ marg[n].counter = 0 \/ threshold = marg[n].threshold
    /\ signal_handler' = IF marg[n].counter = 0
                         THEN [signal_handler EXCEPT ![proc[n]] = n]
                         ELSE signal_handler
    /\ IF marg[n].counter + 1 > threshold
       THEN /\ mpc' = [mpc EXCEPT ![n] = "new"]
            /\ marg' = [marg EXCEPT ![n].counter = @ + 1, ![n].threshold = threshold]
       ELSE /\ mpc' = [mpc EXCEPT ![n] = "condition_sleep"]
            /\ marg' = [marg EXCEPT ![n].counter = @ + 1, ![n].threshold = threshold,
                                    ![n].remaining = ConditionSleep]
    /\ UNCHANGED <<configVars, term, handles, parameterVars,
                   pubsubVars, presenceVars, redis_topics,
                   serviceVars, topicHistory, serviceHistory>>

\* The sleep of 10 s is over: node_condition is called again.
NodeConditionWake(n) ==
    /\ mpc[n] = "condition_sleep"
    /\ marg[n].remaining = 0
    /\ mpc' = [mpc EXCEPT ![n] = "condition"]
    /\ UNCHANGED <<configVars, teardownVars, parameterVars,
                   marg, pubsubVars, presenceVars, redis_topics,
                   serviceVars, topicHistory, serviceHistory>>

\* A constructor that deletes the old parameters of a node that skips
\* registration too.
NodeInit_DeletesWhenSkipping(n) ==
    /\ mpc[n] = "new"
    /\ signal_handler' = [signal_handler EXCEPT ![proc[n]] = n]
    /\ mpc' = [mpc EXCEPT ![n] =
            IF skip_registration[n] THEN "delete_parameters"
            ELSE IF check_node_exists(name[n]) THEN "poll"
            ELSE "register"]
    /\ UNCHANGED <<configVars, term, handles, parameterVars,
                   marg, pubsubVars, presenceVars, redis_topics,
                   serviceVars, topicHistory, serviceHistory>>

\* From the call of node_condition that returned True (the first thing a
\* constructor does, where the hook is Node's own) up to the first look at the
\* nodes database: the signal handlers are bound to this node; registration is skipped with skip_registration, else it
\* follows at once when no record has the node's name, else the polling loop.
NodeInit(n) ==
    /\ mpc[n] = "new"
    /\ signal_handler' = [signal_handler EXCEPT ![proc[n]] = n]
    /\ mpc' = [mpc EXCEPT ![n] =
            IF skip_registration[n] THEN "init_pubsub"
            ELSE IF check_node_exists(name[n]) THEN "poll"
            ELSE "register"]
    /\ UNCHANGED <<configVars, term, handles, parameterVars,
                   marg, pubsubVars, presenceVars, redis_topics,
                   serviceVars, topicHistory, serviceHistory>>

\* while self.check_node_exists(self.name): time.sleep(1) ...
NodePollCheck(n) ==
    /\ mpc[n] = "poll"
    /\ IF check_node_exists(name[n])
       THEN /\ mpc' = [mpc EXCEPT ![n] = "sleep"]
            /\ marg' = [marg EXCEPT ![n].remaining = PollSleep]
       ELSE /\ mpc' = [mpc EXCEPT ![n] = "register"]
            /\ marg' = [marg EXCEPT ![n] = NoArgs]
    /\ UNCHANGED <<configVars, teardownVars, parameterVars,
                   pubsubVars, presenceVars, redis_topics,
                   serviceVars, topicHistory, serviceHistory>>

\* ... if time.time() - start_time > 10: raise DuplicateNodeNameException.
\* After k sleeps of one second more than k seconds have gone by.
NodePollWake(n) ==
    /\ mpc[n] = "sleep"
    /\ marg[n].remaining = 0
    /\ IF marg[n].elapsed + PollSleep >= DuplicateWait
       THEN /\ mpc' = [mpc EXCEPT ![n] = "DuplicateNodeNameException"]
            /\ marg' = [marg EXCEPT ![n] = NoArgs]
       ELSE /\ mpc' = [mpc EXCEPT ![n] = "poll"]
            /\ marg' = [marg EXCEPT ![n].elapsed = @ + PollSleep]
    /\ UNCHANGED <<configVars, teardownVars, parameterVars,
                   pubsubVars, presenceVars, redis_topics,
                   serviceVars, topicHistory, serviceHistory>>

\* Node._register_node: the LoopTimer is made with immediate=True, so the
\* record is written at once; then the timer's thread starts and
\* node_registered becomes True.
NodeRegister(n) ==
    /\ mpc[n] = "register"
    /\ redis_nodes' = RedisSetNode(redis_nodes, name[n], get_node_information(n))
    /\ hb' = [hb EXCEPT ![n] = [NoTimer EXCEPT !.pc = "wait", !.remaining = RenewInterval]]
    /\ node_registered' = [node_registered EXCEPT ![n] = TRUE]
    /\ mpc' = [mpc EXCEPT ![n] = "delete_parameters"]
    /\ UNCHANGED <<configVars, teardownVars, parameterVars,
                   marg, pubsubVars, stopped, redis_topics,
                   serviceVars, topicHistory, serviceHistory>>

\* The text of a node name in the fragments its dots divide it into: a key
\* is one text, in which the dots of the node name are dots like the others.
NameText(node_name) ==
    IF node_name = "n1.q" THEN <<"n1", ".", "q">> ELSE <<node_name>>

\* The key of a parameter: f"{node_name}.{name}".
parameter_key(node_name, parameter_name) == NameText(node_name) \o <<".">> \o parameter_name

\* A scan that yields only the keys of names without a dot.
scan_parameters_TopLevel(node_name) ==
    {k \in DOMAIN redis_parameters : StartsWith(k, NameText(node_name) \o <<".">>) /\ Len(k) = 3}

\* The keys scan_iter(f"{node_name}.*") yields.
scan_parameters(node_name) ==
    {k \in DOMAIN redis_parameters : StartsWith(k, NameText(node_name) \o <<".">>)}

\* The parameter a key is the key of: key.split(".", 1).
KeyOf(k) == <<k[1], SubSeq(k, 3, Len(k))>>

\* if not keep_old_parameters: self.delete_parameters()
NodeDeleteParameters(n) ==
    /\ mpc[n] = "delete_parameters"
    /\ IF keep_old_parameters[n]
       THEN UNCHANGED parameterVars
       ELSE LET gone == scan_parameters(name[n])
            IN  /\ redis_parameters' =
                        [k \in DOMAIN redis_parameters \ gone |-> redis_parameters[k]]
                /\ parameters' =
                        [k \in DOMAIN parameters \ {KeyOf(g) : g \in gone} |-> parameters[k]]
    /\ mpc' = [mpc EXCEPT ![n] = "init_pubsub"]
    /\ UNCHANGED <<configVars, teardownVars, marg, pubsubVars, presenceVars, redis_topics,
                   serviceVars, topicHistory, serviceHistory>>

\* The rest of Node.__init__: the loop thread is started if it never was, and
\* the response channel and "nv_terminate" are subscribed.
NodeInitPubSub(n) ==
    /\ mpc[n] = "init_pubsub"
    /\ loop[proc[n]] # "dead"
    /\ loop' = [loop EXCEPT ![proc[n]] = "running"]
    /\ channels' = [channels EXCEPT ![proc[n]] = SubscribeInitial(@, n)]
    /\ subscriptions' = [subscriptions EXCEPT ![n] = InitialSubscriptions(n)]
    /\ mpc' = [mpc EXCEPT ![n] = "ready"]
    /\ UNCHANGED <<configVars, teardownVars, parameterVars,
                   marg, publishers, inbox, presenceVars, redis_topics,
                   serviceVars, topicHistory, serviceHistory>>

\* ------------------------------------------------------------------------
\* Node.destroy_node
\* ------------------------------------------------------------------------

\* A destroy_node that leaves the renewal timer running.
DestroyNodeStop_TimerRuns(n) ==
    /\ mpc[n] \in {"ready", "sigterm_handler"}
    /\ mpc[n] = "ready" => ~stopped[n]
    /\ mpc' = [mpc EXCEPT ![n] =
            IF node_registered[n] THEN "destroy_node" ELSE "destroy_node_set"]
    /\ UNCHANGED <<configVars, teardownVars, parameterVars, marg, pubsubVars, node_registered,
                   stopped, hb, redis_nodes, redis_topics, serviceVars, topicHistory,
                   serviceHistory>>

\* destroy_node is entered from the calling thread or from _sigterm_handler.
\* Node._deregister_node up to self._renew_node_information_timer.stop(); on a
\* node that is not registered it returns at once.
DestroyNodeStop(n) ==
    /\ mpc[n] \in {"ready", "sigterm_handler"}
    /\ mpc[n] = "ready" => ~stopped[n]
    /\ IF node_registered[n]
       THEN /\ hb' = [hb EXCEPT ![n].stopped = TRUE]
            /\ mpc' = [mpc EXCEPT ![n] = "destroy_node"]
       ELSE /\ mpc' = [mpc EXCEPT ![n] = "destroy_node_set"]
            /\ UNCHANGED hb
    /\ UNCHANGED <<configVars, teardownVars, parameterVars, marg, pubsubVars, node_registered,
                   stopped, redis_nodes, redis_topics, serviceVars, topicHistory,
                   serviceHistory>>

\* self._redis_nodes.delete(self.name); self.node_registered = False
DestroyNodeDelete(n) ==
    /\ mpc[n] = "destroy_node"
    /\ redis_nodes' = [k \in DOMAIN redis_nodes \ {name[n]} |-> redis_nodes[k]]
    /\ node_registered' = [node_registered EXCEPT ![n] = FALSE]
    /\ mpc' = [mpc EXCEPT ![n] = "destroy_node_set"]
    /\ UNCHANGED <<configVars, teardownVars, parameterVars, marg, pubsubVars, stopped, hb,
                   redis_topics, serviceVars, topicHistory, serviceHistory>>

\* self.stopped.set(), and destroy_node returns: to its caller, or to
\* _sigterm_handler, which goes on to sys.exit(0).
DestroyNodeSet(n) ==
    /\ mpc[n] = "destroy_node_set"
    /\ stopped' = [stopped EXCEPT ![n] = TRUE]
    /\ mpc' = [mpc EXCEPT ![n] = IF marg[n].signal THEN "exit" ELSE "ready"]
    /\ UNCHANGED <<configVars, teardownVars, parameterVars, marg, pubsubVars, node_registered,
                   hb, redis_nodes, redis_topics, serviceVars, topicHistory, serviceHistory>>

\* ------------------------------------------------------------------------
\* Node._handle_terminate_callback: destroy_node in a callback thread
\* ------------------------------------------------------------------------

\* Node._deregister_node up to the timer's stop().
TerminateStop(m) ==
    /\ term[m].pc = "destroy_node"
    /\ LET n == term[m].node
       IN  IF node_registered[n]
           THEN /\ hb' = [hb EXCEPT ![n].stopped = TRUE]
                /\ term' = [term EXCEPT ![m].pc = "delete"]
           ELSE /\ term' = [term EXCEPT ![m].pc = "set"]
                /\ UNCHANGED hb
    /\ UNCHANGED <<configVars, handles, signal_handler, parameterVars, threadVars,
                   pubsubVars, node_registered, stopped, redis_nodes, redis_topics,
                   serviceVars, topicHistory, serviceHistory>>

\* self._redis_nodes.delete(self.name); self.node_registered = False
TerminateDelete(m) ==
    /\ term[m].pc = "delete"
    /\ LET n == term[m].node
       IN  /\ redis_nodes' = [k \in DOMAIN redis_nodes \ {name[n]} |-> redis_nodes[k]]
           /\ node_registered' = [node_registered EXCEPT ![n] = FALSE]
    /\ term' = [term EXCEPT ![m].pc = "set"]
    /\ UNCHANGED <<configVars, handles, signal_handler, parameterVars, threadVars,
                   pubsubVars, stopped, hb, redis_topics, serviceVars, topicHistory,
                   serviceHistory>>

\* self.stopped.set(), and the callback thread ends.
TerminateSet(m) ==
    /\ term[m].pc = "set"
    /\ stopped' = [stopped EXCEPT ![term[m].node] = TRUE]
    /\ term' = [term EXCEPT ![m].pc = "done"]
    /\ UNCHANGED <<configVars, handles, signal_handler, parameterVars, threadVars,
                   pubsubVars, node_registered, hb, redis_nodes, redis_topics,
                   serviceVars, topicHistory, serviceHistory>>

\* ------------------------------------------------------------------------
\* Node.spin, Node._sigterm_handler
\* ------------------------------------------------------------------------

\* self.stopped.wait() begins ...
Spin(n) ==
    /\ mpc[n] = "ready"
    /\ mpc' = [mpc EXCEPT ![n] = "spin"]
    /\ UNCHANGED <<configVars, teardownVars, parameterVars, marg, pubsubVars,
                   presenceVars, redis_topics, serviceVars, topicHistory, serviceHistory>>

\* ... and returns once the event is set.
SpinReturn(n) ==
    /\ mpc[n] = "spin"
    /\ stopped[n]
    /\ mpc' = [mpc EXCEPT ![n] = "ready"]
    /\ UNCHANGED <<configVars, teardownVars, parameterVars, marg, pubsubVars,
                   presenceVars, redis_topics, serviceVars, topicHistory, serviceHistory>>

\* SIGINT or SIGTERM reaches the process of n while its main thread is idle or
\* in spin(): the handler bound last runs, which is that of the node
\* constructed last in the process.
Sigterm(n) ==
    /\ signal_handler[proc[n]] = n
    /\ mpc[n] \in {"ready", "spin"}
    /\ ~marg[n].signal
    /\ mpc' = [mpc EXCEPT ![n] = "sigterm_handler"]
    /\ marg' = [marg EXCEPT ![n].signal = TRUE]
    /\ UNCHANGED <<configVars, teardownVars, parameterVars, pubsubVars, presenceVars,
                   redis_topics, serviceVars, topicHistory, serviceHistory>>

\* The callback threads of process p that have not ended; they are not daemon
\* threads, and the interpreter waits for them before it exits.
CallbackThreads(p) ==
    {<<"term", m>> : m \in {m \in Messages :
        term[m].pc \notin {"none", "done"} /\ proc[term[m].node] = p}}
    \cup {<<"srv", c>> : c \in {c \in Calls :
        srv[c].pc \in {"acquire", "running", "publish", "release"} /\ proc[srv[c].node] = p}}
    \cup {<<"rsp", c>> : c \in {c \in Calls : rsp[c].pc # "none" /\ proc[rsp[c].node] = p}}

\* sys.exit(0): the process of n ends, with the threads of every node in it,
\* and its connections close.
SigtermExit(n) ==
    /\ mpc[n] = "exit"
    /\ CallbackThreads(proc[n]) = {}
    /\ mpc' = [m \in Nodes |-> IF proc[m] = proc[n] THEN "exited" ELSE mpc[m]]
    /\ hb' = [m \in Nodes |->
            IF proc[m] = proc[n] /\ hb[m].pc # "off"
            THEN [hb[m] EXCEPT !.pc = "exited", !.remaining = 0, !.info = NoInformation]
            ELSE hb[m]]
    /\ loop' = [loop EXCEPT ![proc[n]] = "exited"]
    /\ channels' = [channels EXCEPT ![proc[n]] = <<>>]
    /\ inbox' = [inbox EXCEPT ![proc[n]] = <<>>]
    /\ UNCHANGED <<configVars, teardownVars, parameterVars, marg, subscriptions, publishers,
                   node_registered, stopped, redis_nodes, redis_topics, serviceVars,
                   topicHistory, serviceHistory>>


\* ------------------------------------------------------------------------
\* Parameters
\* ------------------------------------------------------------------------

\* if not node_name: node_name = self.name
parameter_node(n, node_name) == IF node_name = "" THEN name[n] ELSE node_name

\* A get_parameter that reads the calling node's parameter whatever node_name is.
get_parameter_OwnNode(n, parameter_name, node_name, fail_if_not_found) ==
    LET key == parameter_key(name[n], parameter_name)
    IN  IF key \in DOMAIN redis_parameters
        THEN json_loads(redis_parameters[key].value)
        ELSE IF fail_if_not_found
             THEN [type |-> "ParameterNotFoundException", val |-> <<"Parameter None not found">>]
             ELSE PyNone

\* A get_parameter that returns None for a missing parameter whatever
\* fail_if_not_found is.
get_parameter_NeverRaises(n, parameter_name, node_name, fail_if_not_found) ==
    LET key == parameter_key(parameter_node(n, node_name), parameter_name)
    IN  IF key \in DOMAIN redis_parameters
        THEN json_loads(redis_parameters[key].value)
        ELSE PyNone

\* Node.get_parameter: the value, None, or the exception raised, whose
\* message is formatted from the None that the GET returned.
get_parameter(n, parameter_name, node_name, fail_if_not_found) ==
    LET key == parameter_key(parameter_node(n, node_name), parameter_name)
    IN  IF key \in DOMAIN redis_parameters
        THEN json_loads(redis_parameters[key].value)
        ELSE IF fail_if_not_found
             THEN [type |-> "ParameterNotFoundException", val |-> <<"Parameter None not found">>]
             ELSE PyNone

\* A call of get_parameter: one GET, and what the caller gets is kept.
GetParameter(n, parameter_name, node_name, fail_if_not_found) ==
    /\ mpc[n] = "ready"
    /\ marg' = [marg EXCEPT ![n] =
            [NoArgs EXCEPT !.read = [name |-> parameter_name, node_name |-> node_name,
                                     fail_if_not_found |-> fail_if_not_found],
                           !.returned = get_parameter(n, parameter_name, node_name,
                                                      fail_if_not_found)]]
    /\ UNCHANGED <<configVars, teardownVars, parameterVars, mpc, pubsubVars, presenceVars,
                   redis_topics, serviceVars, topicHistory, serviceHistory>>

\* Node.get_parameters with match="*": the names split off the keys that
\* scan_iter(f"{node_name}.*") yields, each with what get_parameter returns.
get_parameters(n, node_name) ==
    [pn \in {KeyOf(k)[2] : k \in scan_parameters(parameter_node(n, node_name))} |->
        get_parameter(n, pn, node_name, FALSE)]

\* The entries of a set_parameters batch one after the other, each stored as
\* json.dumps({"value": value, "description": description}), on the store and
\* on the history of the values set.
RECURSIVE SetAll(_, _, _)
SetAll(db, n, entries) ==
    IF entries = <<>>
    THEN db
    ELSE LET e == Head(entries)
             node_name == parameter_node(n, e.node_name)
         IN  SetAll([redis |-> (parameter_key(node_name, e.name) :>
                                    json_dumps_members(PyDict(
                                        [value |-> e.value,
                                         description |-> e.description]))) @@ db.redis,
                     set |-> (<<node_name, e.name>> :> e.value) @@ db.set],
                    n, Tail(entries))

\* Node.set_parameters: json.dumps runs for every entry while the pipeline is
\* filled, so a value it refuses raises TypeError before anything is sent;
\* otherwise pipe.execute() sets all the entries.  Node.set_parameter is the
\* same with one entry and no pipeline.
SetParameters(n, entries) ==
    /\ mpc[n] = "ready"
    /\ IF \A i \in DOMAIN entries :
            JsonSerialisable(PyDict([value |-> entries[i].value,
                                     description |-> entries[i].description]))
       THEN LET db == SetAll([redis |-> redis_parameters, set |-> parameters], n, entries)
            IN  /\ redis_parameters' = db.redis
                /\ parameters' = db.set
       ELSE UNCHANGED parameterVars
    /\ UNCHANGED <<configVars, teardownVars, threadVars, pubsubVars, presenceVars,
                   redis_topics, serviceVars, topicHistory, serviceHistory>>

\* Node.set_parameter
SetParameter(n, parameter_name, value, node_name, description) ==
    SetParameters(n, <<[name |-> parameter_name, value |-> value,
                        node_name |-> node_name, description |-> description]>>)

\* Node.delete_parameters: the keys of the names given, or with names=None
\* every key scan_iter(f"{node_name}.*") yields; a call with names=None is
\* kept as the node's last call.  Node.delete_parameter is
\* the same with one name and no pipeline.
DeleteParameters(n, names, node_name) ==
    /\ mpc[n] = "ready"
    /\ LET gone == IF names.none
                   THEN scan_parameters(parameter_node(n, node_name))
                   ELSE {parameter_key(parameter_node(n, node_name), pn) : pn \in names.list}
       IN  /\ redis_parameters' =
                [k \in DOMAIN redis_parameters \ gone |-> redis_parameters[k]]
           /\ parameters' =
                [k \in DOMAIN parameters \ {KeyOf(g) : g \in gone} |-> parameters[k]]
    /\ marg' = IF names.none
               THEN [marg EXCEPT ![n] =
                        [NoArgs EXCEPT !.delete = [none |-> TRUE, node_name |-> node_name]]]
               ELSE marg
    /\ UNCHANGED <<configVars, teardownVars, mpc, pubsubVars, presenceVars,
                   redis_topics, serviceVars, topicHistory, serviceHistory>>

\* Node.delete_parameter
DeleteParameter(n, parameter_name, node_name) ==
    DeleteParameters(n, [none |-> FALSE, list |-> {parameter_name}], node_name)

\* ------------------------------------------------------------------------
\* Parameter files
\* ------------------------------------------------------------------------

\* A parameter file is a dict as json.load and yaml.safe_load build it: its
\* items in the order of the file, the key of an item kept as the fragments
\* of its text.

\* eval(condition) after "${VAR}" became os.environ.get('VAR'), for the
\* conditions ${VAR}, ${VAR}=='text' and ${VAR}!='text': a reference alone is
\* true when the variable is set and not empty.
eval_condition(condition, env) ==
    LET get == IF condition[2] \in DOMAIN env THEN <<env[condition[2]]>> ELSE <<>>
    IN  IF Len(condition) = 3
        THEN get # <<>> /\ get # <<"">>
        ELSE IF condition[4] = "=="
             THEN get = <<condition[6]>>
             ELSE get # <<condition[6]>>

\* Node.load_parameters_from_file, for the first k items of the file: an item
\* whose key has a "(" is dropped when its condition is false, and else is
\* stored under the key without "(condition)"; parameters[key] = value puts
\* the value in the place of an earlier item of that key.
RECURSIVE load_parameters_from_file(_, _, _)
load_parameters_from_file(filepath, env, k) ==
    IF k = 0
    THEN <<>>
    ELSE LET result == load_parameters_from_file(filepath, env, k - 1)
             item == filepath[k]
             open == CHOOSE i \in DOMAIN item.key :
                        item.key[i] = "(" /\ \A j \in 1..(i - 1) : item.key[j] # "("
             close == CHOOSE i \in DOMAIN item.key :
                        item.key[i] = ")" /\ \A j \in (i + 1)..Len(item.key) : item.key[j] # ")"
             conditional == "(" \in Range(item.key)
             key == IF conditional
                    THEN SubSeq(item.key, 1, open - 1) \o SubSeq(item.key, close + 1, Len(item.key))
                    ELSE item.key
             at == {i \in DOMAIN result : result[i].key = key}
         IN  IF conditional /\ ~eval_condition(SubSeq(item.key, open + 1, close - 1), env)
             THEN result
             ELSE IF at = {}
                  THEN Append(result, [key |-> key, value |-> item.value])
                  ELSE [i \in DOMAIN result |->
                            IF i \in at
                            THEN [key |-> key, value |-> item.value]
                            ELSE result[i]]

\* convert_to_parameter_list of set_parameters_from_file: the keys of the
\* first level are node names, a dict below is a level of subparameters, and
\* a leaf is an entry named by the keys above it joined with ".".
RECURSIVE convert_to_parameter_list(_, _, _)
convert_to_parameter_list(parameter_dict, node_name, subparams) ==
    IF parameter_dict = <<>>
    THEN <<>>
    ELSE LET item == Head(parameter_dict)
         IN  (IF node_name = ""
              THEN convert_to_parameter_list(item.value.items, item.key[1], <<>>)
              ELSE IF item.value.type = "dict"
                   THEN convert_to_parameter_list(item.value.items, node_name,
                                                  subparams \o item.key \o <<".">>)
                   ELSE <<[node_name |-> node_name, name |-> subparams \o item.key,
                           value |-> item.value, description |-> PyNone]>>)
             \o convert_to_parameter_list(Tail(parameter_dict), node_name, subparams)

\* Node.set_parameters_from_file: the file is loaded, converted and given to
\* set_parameters; what was loaded is kept with the path.
SetParametersFromFile(n, filepath) ==
    /\ mpc[n] = "ready"
    /\ LET loaded == load_parameters_from_file(filepath, environ[proc[n]], Len(filepath))
           db == SetAll([redis |-> redis_parameters, set |-> parameters], n,
                        convert_to_parameter_list(loaded, "", <<>>))
       IN  /\ marg' = [marg EXCEPT ![n] =
                    [NoArgs EXCEPT !.filepath = filepath, !.parameters = loaded]]
           /\ redis_parameters' = db.redis
           /\ parameters' = db.set
    /\ UNCHANGED <<configVars, teardownVars, mpc, pubsubVars, presenceVars,
                   redis_topics, serviceVars, topicHistory, serviceHistory>>

\* os.environ["E"] = value in the process of n.
Setenv(n, value) ==
    /\ mpc[n] = "ready"
    /\ environ' = [environ EXCEPT ![proc[n]] = ("E" :> value) @@ @]
    /\ UNCHANGED <<name, proc, workspace, skip_registration, keep_old_parameters,
                   teardownVars, parameterVars, threadVars, pubsubVars, presenceVars,
                   redis_topics, serviceVars, topicHistory, serviceHistory>>
\* ------------------------------------------------------------------------
\* Node.call_service
\* ------------------------------------------------------------------------

\* self._redis_nodes.keys(): the names of the records, in the order Redis
\* returns them, which is any order.
RedisKeys ==
    {scan \in [1..Cardinality(DOMAIN redis_nodes) -> DOMAIN redis_nodes] :
        Range(scan) = DOMAIN redis_nodes}

\* Node.get_nodes: the record of every name of the scan, in its order.
get_nodes(scan) ==
    [i \in DOMAIN scan |-> [node |-> scan[i], info |-> redis_nodes[scan[i]].info]]

\* Node.get_services: the records are gone through in their order and
\* services[service_name] = service_id is assigned for every service of every
\* record, so that a name is left with the identifier in the last record
\* that has it.
get_services(nodes) ==
    [service_name \in UNION {DOMAIN nodes[i].info.services : i \in DOMAIN nodes} |->
        LET has == {i \in DOMAIN nodes : service_name \in DOMAIN nodes[i].info.services}
            last == CHOOSE i \in has : \A j \in has : j <= i
        IN  nodes[last].info.services[service_name]]

NoCall == [pc |-> "idle", node |-> "", service_name |-> "", args |-> PyNone,
           service_id |-> <<>>, remaining |-> 0, value |-> PyNone, timeout |-> 0,
           scan |-> <<>>]

NoEntry == [event |-> FALSE, result |-> "", data |-> PyNone]

\* A faulty variant of the step below, which makes the pending entry before it
\* looks the service up.
CallServiceResolve_EntryFirst(c, n, service_name, args) ==
    /\ calls[c].pc = "idle"
    /\ \A d \in 1..(c - 1) : calls[d].pc # "idle"
    /\ service_requests' = [service_requests EXCEPT ![n] = (c :> NoEntry) @@ @]
    /\ \E scan \in RedisKeys :
        IF service_name \notin DOMAIN get_services(get_nodes(scan))
        THEN calls' = [calls EXCEPT ![c] = [NoCall EXCEPT
                    !.pc = "ServiceNotFoundException", !.node = n,
                    !.service_name = service_name, !.args = args, !.scan = get_nodes(scan)]]
        ELSE calls' = [calls EXCEPT ![c] = [NoCall EXCEPT
                    !.pc = "publish", !.node = n, !.service_name = service_name,
                    !.args = args, !.scan = get_nodes(scan),
                    !.service_id = get_services(get_nodes(scan))[service_name]]]
    /\ UNCHANGED <<configVars, teardownVars, parameterVars,
                   threadVars, pubsubVars, presenceVars, redis_topics,
                   services, service_locks, srv, rsp, topicHistory, serviceHistory>>

\* A faulty variant of the step below, in which a name keeps the identifier
\* of the first record of the scan that has it.
CallServiceResolve_FirstFound(c, n, service_name, args) ==
    /\ calls[c].pc = "idle"
    /\ \A d \in 1..(c - 1) : calls[d].pc # "idle"
    /\ \E scan \in RedisKeys :
        LET has == {i \in DOMAIN scan :
                        service_name \in DOMAIN redis_nodes[scan[i]].info.services}
            first == CHOOSE i \in has : \A j \in has : i <= j
        IN  IF has = {}
            THEN /\ calls' = [calls EXCEPT ![c] = [NoCall EXCEPT
                        !.pc = "ServiceNotFoundException", !.node = n,
                        !.service_name = service_name, !.args = args, !.scan = get_nodes(scan)]]
                 /\ UNCHANGED service_requests
            ELSE /\ calls' = [calls EXCEPT ![c] = [NoCall EXCEPT
                        !.pc = "publish", !.node = n, !.service_name = service_name,
                        !.args = args, !.scan = get_nodes(scan),
                        !.service_id = redis_nodes[scan[first]].info.services[service_name]]]
                 /\ service_requests' = [service_requests EXCEPT ![n] = (c :> NoEntry) @@ @]
    /\ UNCHANGED <<configVars, teardownVars, parameterVars,
                   threadVars, pubsubVars, presenceVars, redis_topics,
                   services, service_locks, srv, rsp, topicHistory, serviceHistory>>

\* Up to self._service_requests[request_id] = {"event": threading.Event()}:
\* the services are those of one scan of the records, which the call keeps
\* in `scan` as get_nodes returned it.
CallServiceResolve(c, n, service_name, args) ==
    /\ calls[c].pc = "idle"
    /\ \A d \in 1..(c - 1) : calls[d].pc # "idle"
    /\ \E scan \in RedisKeys :
        IF service_name \notin DOMAIN get_services(get_nodes(scan))
        THEN /\ calls' = [calls EXCEPT ![c] = [NoCall EXCEPT
                    !.pc = "ServiceNotFoundException", !.node = n,
                    !.service_name = service_name, !.args = args, !.scan = get_nodes(scan)]]
             /\ UNCHANGED service_requests
        ELSE /\ calls' = [calls EXCEPT ![c] = [NoCall EXCEPT
                    !.pc = "publish", !.node = n, !.service_name = service_name,
                    !.args = args, !.scan = get_nodes(scan),
                    !.service_id = get_services(get_nodes(scan))[service_name]]]
             /\ service_requests' = [service_requests EXCEPT ![n] = (c :> NoEntry) @@ @]
    /\ UNCHANGED <<configVars, teardownVars, parameterVars,
                   threadVars, pubsubVars, presenceVars, redis_topics,
                   services, service_locks, srv, rsp, topicHistory, serviceHistory>>

\* self.publish(service_id, message), then event.wait(timeout=10) begins.
CallServicePublish(c) ==
    /\ calls[c].pc = "publish"
    /\ LET n == calls[c].node
           ch == get_absolute_topic(n, calls[c].service_id)
           data == encode_pubsub_message(PyDict(
                      [response_topic |-> PyText(service_response_channel(n)),
                       request_id |-> PyText(Uuid(c)), args |-> calls[c].args,
                       kwargs |-> PyNone]))
           frame == [ch |-> ch, mid |-> 0, data |-> data]
       IN  /\ publishers' = [publishers EXCEPT ![n] = @ \cup {ch}]
           /\ IF data.kind = "bytes"
              THEN /\ inbox' = RedisPublish(inbox, ch, frame)
                   /\ sent' = sent (+) SetToBag({[by |-> "client", request |-> c, ch |-> ch,
                                                  data |-> data]})
                   /\ calls' = [calls EXCEPT ![c].pc = "wait",
                                             ![c].remaining = ServiceTimeout]
              ELSE \* redis.exceptions.DataError leaves call_service
                   /\ calls' = [calls EXCEPT ![c].pc = "DataError"]
                   /\ UNCHANGED <<inbox, sent>>
    /\ UNCHANGED <<configVars, teardownVars, parameterVars,
                   threadVars, subscriptions, channels, loop, presenceVars,
                   redis_topics, services, service_locks, service_requests, srv, rsp,
                   topicHistory, invocations>>

\* The wait ends with the event set: ServiceErrorException on an "error"
\* result, otherwise the entry is deleted and its data returned.
CallServiceWake(c) ==
    /\ calls[c].pc = "wait"
    /\ LET n == calls[c].node
           entry == service_requests[n][c]
       IN  /\ entry.event
           /\ IF entry.result = "error"
              THEN /\ calls' = [calls EXCEPT ![c].pc = "ServiceErrorException",
                                             ![c].value = entry.data]
                   /\ UNCHANGED service_requests
              ELSE /\ calls' = [calls EXCEPT ![c].pc = "returned", ![c].value = entry.data]
                   /\ service_requests' = [service_requests EXCEPT ![n] =
                        [k \in DOMAIN @ \ {c} |-> @[k]]]
    /\ UNCHANGED <<configVars, teardownVars, parameterVars,
                   threadVars, pubsubVars, presenceVars, redis_topics,
                   services, service_locks, srv, rsp, topicHistory, serviceHistory>>

\* A faulty variant of the step below, which returns None where the code
\* raises.
CallServiceTimeout_Returns(c) ==
    /\ calls[c].pc = "wait"
    /\ calls[c].remaining = 0
    /\ ~service_requests[calls[c].node][c].event
    /\ calls' = [calls EXCEPT ![c].pc = "returned"]
    /\ UNCHANGED <<configVars, teardownVars, parameterVars,
                   threadVars, pubsubVars, presenceVars, redis_topics,
                   services, service_locks, service_requests, srv, rsp,
                   topicHistory, serviceHistory>>

\* The wait ends after 10 s with the event not set.
CallServiceTimeout(c) ==
    /\ calls[c].pc = "wait"
    /\ calls[c].remaining = 0
    /\ ~service_requests[calls[c].node][c].event
    /\ calls' = [calls EXCEPT ![c].pc = "ServiceTimeoutException"]
    /\ UNCHANGED <<configVars, teardownVars, parameterVars,
                   threadVars, pubsubVars, presenceVars, redis_topics,
                   services, service_locks, service_requests, srv, rsp,
                   topicHistory, serviceHistory>>

\* ------------------------------------------------------------------------
\* Node.wait_for_service_ready
\* ------------------------------------------------------------------------

\* wait_for_service_ready(service_name, timeout) is called: the loop is about
\* to look at the services for the first time.  The timeout is counted in
\* tenths of a second, the amount one pass of the loop takes off it.
WaitForServiceReady(c, n, service_name, timeout) ==
    /\ calls[c].pc = "idle"
    /\ \A d \in 1..(c - 1) : calls[d].pc # "idle"
    /\ calls' = [calls EXCEPT ![c] = [NoCall EXCEPT
            !.pc = "poll", !.node = n, !.service_name = service_name,
            !.timeout = timeout]]
    /\ UNCHANGED <<configVars, teardownVars, parameterVars,
                   threadVars, pubsubVars, presenceVars, redis_topics,
                   services, service_locks, service_requests, srv, rsp,
                   topicHistory, serviceHistory>>

\* A faulty variant of the pass below, which goes on sleeping where the code
\* raises.
WaitForServiceReadyPoll_NeverRaises(c) ==
    /\ calls[c].pc = "poll"
    /\ \E scan \in RedisKeys :
        IF calls[c].service_name \in DOMAIN get_services(get_nodes(scan))
        THEN calls' = [calls EXCEPT ![c].pc = "returned", ![c].scan = get_nodes(scan),
                                    ![c].value = [type |-> "bool", val |-> <<"true">>]]
        ELSE calls' = [calls EXCEPT ![c].timeout = @ - 1, ![c].scan = get_nodes(scan)]
    /\ UNCHANGED <<configVars, teardownVars, parameterVars,
                   threadVars, pubsubVars, presenceVars, redis_topics,
                   services, service_locks, service_requests, srv, rsp,
                   topicHistory, serviceHistory>>

\* One pass of `while service_name not in self.get_services()`: the loop is
\* left with True when the name is there; otherwise the pass raises when the
\* timeout is used up, and else sleeps 0.1 s and takes 0.1 off the timeout.
\* The sleep is shorter than the clock of this model ticks: the next pass is
\* a later step, and whatever happens during the sleep happens in between.
WaitForServiceReadyPoll(c) ==
    /\ calls[c].pc = "poll"
    /\ \E scan \in RedisKeys :
        IF calls[c].service_name \in DOMAIN get_services(get_nodes(scan))
        THEN calls' = [calls EXCEPT ![c].pc = "returned", ![c].scan = get_nodes(scan),
                                    ![c].value = [type |-> "bool", val |-> <<"true">>]]
        ELSE IF calls[c].timeout <= 0
             THEN calls' = [calls EXCEPT ![c].pc = "ServiceNotFoundException",
                                         ![c].scan = get_nodes(scan)]
             ELSE calls' = [calls EXCEPT ![c].timeout = @ - 1, ![c].scan = get_nodes(scan)]
    /\ UNCHANGED <<configVars, teardownVars, parameterVars,
                   threadVars, pubsubVars, presenceVars, redis_topics,
                   services, service_locks, service_requests, srv, rsp,
                   topicHistory, serviceHistory>>

\* ------------------------------------------------------------------------
\* Node._handle_service_callback
\* ------------------------------------------------------------------------

\* A faulty variant of the read below, which hands the stored bytes over as
\* text.
RedisGetTopic_AsText(key) ==
    IF key \in DOMAIN redis_topics THEN PyText(redis_topics[key].data) ELSE PyNone

\* self._redis_topics.get(key): the stored bytes, None when the key does not
\* exist
RedisGetTopic(key) ==
    IF key \in DOMAIN redis_topics
    THEN [type |-> "bytes", val |-> redis_topics[key].data]
    ELSE PyNone

\* A handler that gives the reply to the oldest pending call of the node,
\* whatever its request_id.
HandleServiceCallback_OldestPending(c) ==
    /\ rsp[c].pc = "start"
    /\ LET n == rsp[c].node
           data == rsp[c].data
           pending == DOMAIN service_requests[n]
       IN  IF pending # {}
           THEN /\ service_requests' = [service_requests EXCEPT
                    ![n][CHOOSE d \in pending : \A e \in pending : d <= e] =
                    [event |-> TRUE,
                     result |-> rsp[c].result,
                     data |-> IF data.type = "str" /\ StartsWith(data.val, BytesPrefix)
                              THEN RedisGetTopic(data.val)
                              ELSE data]]
                /\ rsp' = [rsp EXCEPT ![c] = NoReply]
           ELSE /\ rsp' = [rsp EXCEPT ![c] = NoReply]
                /\ UNCHANGED service_requests
    /\ UNCHANGED <<configVars, teardownVars, parameterVars,
                   threadVars, pubsubVars, presenceVars, redis_topics,
                   services, service_locks, calls, srv, topicHistory, serviceHistory>>

\* Node._handle_service_callback: the entry of the reply's request_id gets the
\* result and the data, and its event is set.
HandleServiceCallback(c) ==
    /\ rsp[c].pc = "start"
    /\ LET n == rsp[c].node
           data == rsp[c].data
       IN  IF c \in DOMAIN service_requests[n]
           THEN /\ service_requests' = [service_requests EXCEPT ![n][c] =
                    [event |-> TRUE,
                     result |-> rsp[c].result,
                     data |-> IF data.type = "str" /\ StartsWith(data.val, BytesPrefix)
                              THEN RedisGetTopic(data.val)
                              ELSE data]]
                /\ rsp' = [rsp EXCEPT ![c] = NoReply]
           ELSE \* KeyError ends the thread
                /\ rsp' = [rsp EXCEPT ![c] = NoReply]
                /\ UNCHANGED service_requests
    /\ UNCHANGED <<configVars, teardownVars, parameterVars,
                   threadVars, pubsubVars, presenceVars, redis_topics,
                   services, service_locks, calls, srv, topicHistory, serviceHistory>>

\* ------------------------------------------------------------------------
\* Time
\* ------------------------------------------------------------------------

\* The steps that take no time: every step of the runtime's own code that is
\* not the start of an operation, a timed wait or the body of a user handler.
Immediate ==
    \/ \E p \in Procs : Dispatch(p)
    \/ \E m \in Messages : \/ TerminateStop(m)
                           \/ TerminateDelete(m)
                           \/ TerminateSet(m)
    \/ \E n \in Nodes : \/ marg[n].counter > 0 /\ \E t \in {0, 2} : NodeCondition(n, t)
                        \/ NodeConditionWake(n)
                        \/ NodePollCheck(n)
                        \/ NodePollWake(n)
                        \/ NodeRegister(n)
                        \/ NodeDeleteParameters(n)
                        \/ NodeInitPubSub(n)
                        \/ mpc[n] = "sigterm_handler" /\ DestroyNodeStop(n)
                        \/ DestroyNodeDelete(n)
                        \/ DestroyNodeSet(n)
                        \/ SigtermExit(n)
                        \/ SpinReturn(n)
                        \/ CreateSubscriptionAppend(n)
                        \/ CreateServiceRenew(n)
                        \/ CreateServiceLock(n)
                        \/ HeartbeatWake(n)
                        \/ HeartbeatWrite(n)
    \/ \E c \in Calls : \/ CallServicePublish(c)
                        \/ CallServiceWake(c)
                        \/ CallServiceTimeout(c)
                        \/ HandleServiceCallAcquire(c)
                        \/ HandleServiceCallPublish(c)
                        \/ HandleServiceCallRelease(c)
                        \/ HandleServiceCallback(c)

\* The running timers: the timed waits and the expiries of Redis keys.
Timers ==
    {calls[c].remaining : c \in {c \in Calls : calls[c].pc = "wait"}}
        \cup {hb[n].remaining : n \in {n \in Nodes : hb[n].pc = "wait"}}
        \cup {marg[n].remaining : n \in {n \in Nodes : mpc[n] \in {"sleep", "condition_sleep"}}}
        \cup {redis_nodes[k].ttl : k \in DOMAIN redis_nodes}
        \cup {redis_topics[k].ttl : k \in DOMAIN redis_topics}

Expire(db, d) ==
    [k \in {k \in DOMAIN db : db[k].ttl > d} |-> [db[k] EXCEPT !.ttl = @ - d]]

\* Time passes, up to the next instant at which a timer runs out.
Advance ==
    /\ ~ENABLED Immediate
    /\ Timers # {}
    /\ LET d == CHOOSE d \in Timers : \A e \in Timers : d <= e
       IN  /\ calls' = [c \in Calls |->
                IF calls[c].pc = "wait" THEN [calls[c] EXCEPT !.remaining = @ - d]
                ELSE calls[c]]
           /\ hb' = [n \in Nodes |->
                IF hb[n].pc = "wait" THEN [hb[n] EXCEPT !.remaining = @ - d] ELSE hb[n]]
           /\ marg' = [n \in Nodes |->
                IF mpc[n] \in {"sleep", "condition_sleep"}
                THEN [marg[n] EXCEPT !.remaining = @ - d]
                ELSE marg[n]]
           /\ redis_nodes' = Expire(redis_nodes, d)
           /\ redis_topics' = Expire(redis_topics, d)
    /\ UNCHANGED <<configVars, teardownVars, parameterVars,
                   mpc, pubsubVars, node_registered, stopped,
                   services, service_locks, service_requests, srv, rsp,
                   topicHistory, serviceHistory>>

\* ------------------------------------------------------------------------
\* Topics: two subscribing nodes in one process, a publishing node in another
\* ------------------------------------------------------------------------

PubSubProc == [n \in Nodes |-> IF n = "n3" THEN "p2" ELSE "p1"]
Subscribers == {"n1", "n2"}
Publishers == {"n3"}

\* No operation has been called yet on the nodes, and no frame is under way.
Idle ==
    /\ environ = [p \in Procs |-> <<>>]
    /\ marg = [n \in Nodes |-> NoArgs]
    /\ publishers = [n \in Nodes |-> {}]
    /\ inbox = [p \in Procs |-> <<>>]
    /\ stopped = [n \in Nodes |-> FALSE]
    /\ redis_topics = <<>>
    /\ services = [n \in Nodes |-> <<>>]
    /\ service_locks = [n \in Nodes |-> <<>>]
    /\ service_requests = [n \in Nodes |-> <<>>]
    /\ calls = [c \in Calls |-> NoCall]
    /\ srv = [c \in Calls |-> NoWorker]
    /\ rsp = [c \in Calls |-> NoReply]
    /\ term = [m \in Messages |-> NoTerminate]
    /\ handles = [n \in Nodes |-> <<>>]
    /\ published = <<>>
    /\ expected = {}
    /\ received = EmptyBag
    /\ invocations = EmptyBag
    /\ sent = EmptyBag

\* ... no node is registered, and the broker holds no record and no parameter.
Blank ==
    /\ Idle
    /\ node_registered = [n \in Nodes |-> FALSE]
    /\ hb = [n \in Nodes |-> NoTimer]
    /\ redis_nodes = <<>>
    /\ redis_parameters = <<>>
    /\ parameters = <<>>

\* The node of process p constructed last: its constructor bound the signal
\* handlers last.
RECURSIVE LastConstructed(_, _, _)
LastConstructed(p, pr, k) ==
    IF k = 0
    THEN ""
    ELSE IF pr[ConstructionOrder[k]] = p
         THEN ConstructionOrder[k]
         ELSE LastConstructed(p, pr, k - 1)

\* The state once the constructors of all the nodes, each called with
\* skip_registration=True and a name of its own, have returned.
Constructed(pr, workspaces) ==
    /\ Blank
    /\ name = [n \in Nodes |-> n]
    /\ proc = pr
    /\ workspace \in workspaces
    /\ skip_registration = [n \in Nodes |-> TRUE]
    /\ keep_old_parameters = [n \in Nodes |-> FALSE]
    /\ mpc = [n \in Nodes |-> "ready"]
    /\ subscriptions = [n \in Nodes |-> InitialSubscriptions(n)]
    /\ channels = [p \in Procs |-> InitialChannels(p, pr, Len(ConstructionOrder))]
    /\ loop = [p \in Procs |-> IF \E n \in Nodes : pr[n] = p THEN "running" ELSE "off"]
    /\ signal_handler = [p \in Procs |-> LastConstructed(p, pr, Len(ConstructionOrder))]

\* All the nodes are in one workspace.

NextPubSub ==
    \/ \E n \in Subscribers, t \in TopicNames : CreateSubscriptionSubscribe(n, t, UserCallback(n))
    \/ \E n \in Subscribers : CreateSubscriptionAppend(n)
    \/ \E n \in Publishers, t \in PublishedNames, v \in Payloads : Publish(n, t, v)
    \/ \E p \in Procs : Dispatch(p)

SpecPubSub ==
    /\ Constructed(PubSubProc, {[n \in Nodes |-> w] : w \in Workspaces})
    /\ [][NextPubSub]_vars

\* ------------------------------------------------------------------------
\* Services: a server node and a client node in two processes, both built
\* with skip_registration=True.  The server's presence record is the one
\* create_service writes; nothing renews it.
\* ------------------------------------------------------------------------

ServiceProc == [n \in Nodes |-> IF n = "n2" THEN "p2" ELSE "p1"]
Servers == {"n1"}
Clients == {"n2"}
ServiceNames == {"s"}
\* What the handler returns and what it raises (it is called with 123 or
\* with b'Hello World').
Handlers ==
    {Returns(v) : v \in {PyInt, PyBytes, PyText(BytesPrefix \o <<"x">>), PyObject}}
        \cup {Raises(<<"boom">>)}

\* The server and the client are each in a workspace of their own choice.
InitService ==
    Constructed(ServiceProc, {ws \in [Nodes -> Workspaces] : ws["n3"] = NoWorkspace})

NextService ==
    \/ \E n \in Servers, s \in ServiceNames, f \in Handlers, a \in BOOLEAN :
            CreateServiceSubscribe(n, s, f, a)
    \/ \E n \in Servers : CreateServiceRenew(n)
    \/ \E n \in Servers : CreateServiceLock(n)
    \/ \E c \in Calls, n \in Clients, s \in ServiceNames, a \in {PyInt, PyBytes} :
            CallServiceResolve(c, n, s, a)
    \/ \E c \in Calls : CallServicePublish(c)
    \/ \E c \in Calls : CallServiceWake(c)
    \/ \E c \in Calls : CallServiceTimeout(c)
    \/ \E p \in Procs : Dispatch(p)
    \/ \E c \in Calls : HandleServiceCallAcquire(c)
    \/ \E c \in Calls : HandleServiceCallReturn(c)
    \/ \E c \in Calls : HandleServiceCallRaise(c)
    \/ \E c \in Calls : HandleServiceCallPublish(c)
    \/ \E c \in Calls : HandleServiceCallRelease(c)
    \/ \E c \in Calls : HandleServiceCallback(c)
    \/ Advance

SpecService == InitService /\ [][NextService]_vars

\* ------------------------------------------------------------------------
\* Presence: two node instances started with the same name in two processes
\* ------------------------------------------------------------------------

PresenceProc == [n \in Nodes |-> IF n = "n2" THEN "p2" ELSE "p1"]
Starters == {"n1", "n2"}
PresenceNames == [n \in Nodes |-> IF n \in Starters THEN "a" ELSE n]


\* No constructor has been called yet (pc is "new"), or every constructor is
\* about to call node_condition (pc is "condition"); the nodes have the given
\* names and all of them the same skip_registration, one of flags.
Unstarted(names, flags, pc) ==
    /\ Idle
    /\ node_registered = [n \in Nodes |-> FALSE]
    /\ hb = [n \in Nodes |-> NoTimer]
    /\ name = names
    /\ proc = PresenceProc
    /\ workspace = [n \in Nodes |-> NoWorkspace]
    /\ skip_registration \in {[n \in Nodes |-> k] : k \in flags}
    /\ mpc = [n \in Nodes |-> pc]
    /\ subscriptions = [n \in Nodes |-> <<>>]
    /\ channels = [p \in Procs |-> <<>>]
    /\ loop = [p \in Procs |-> "off"]
    /\ signal_handler = [p \in Procs |-> ""]

NextPresence ==
    \/ \E n \in Starters : NodeInit(n)
    \/ \E n \in Starters : NodePollCheck(n)
    \/ \E n \in Starters : NodePollWake(n)
    \/ \E n \in Starters : NodeRegister(n)
    \/ \E n \in Starters : NodeDeleteParameters(n)
    \/ \E n \in Starters : NodeInitPubSub(n)
    \/ \E n \in Starters : HeartbeatWake(n)
    \/ \E n \in Starters : HeartbeatWrite(n)
    \/ \E n \in Starters, s \in ServiceNames, f \in {Returns(PyInt)}, a \in BOOLEAN :
            CreateServiceSubscribe(n, s, f, a)
    \/ \E n \in Starters : CreateServiceRenew(n)
    \/ \E n \in Starters : CreateServiceLock(n)
    \/ \E n \in Starters : DestroyNodeStop(n)
    \/ \E n \in Starters : DestroyNodeDelete(n)
    \/ \E n \in Starters : DestroyNodeSet(n)
    \/ Advance

SpecPresence ==
    /\ Unstarted(PresenceNames, {FALSE}, "new")
    /\ keep_old_parameters = [n \in Nodes |-> FALSE]
    /\ redis_nodes = <<>>
    /\ redis_parameters = <<>>
    /\ parameters = <<>>
    /\ [][NextPresence]_vars


\* ------------------------------------------------------------------------
\* Renewal: node instances with names of their own, each with its renewal
\* timer, making services and being destroyed
\* ------------------------------------------------------------------------



NextRenewal ==
    \/ \E n \in Starters : NodeInit(n)
    \/ \E n \in Starters : NodeRegister(n)
    \/ \E n \in Starters : NodeDeleteParameters(n)
    \/ \E n \in Starters : NodeInitPubSub(n)
    \/ \E n \in Starters : HeartbeatWake(n)
    \/ \E n \in Starters : HeartbeatWrite(n)
    \/ \E n \in Starters, s \in ServiceNames, f \in {Returns(PyInt)}, a \in BOOLEAN :
            CreateServiceSubscribe(n, s, f, a)
    \/ \E n \in Starters : CreateServiceRenew(n)
    \/ \E n \in Starters : CreateServiceLock(n)
    \/ \E n \in Starters : DestroyNodeStop(n)
    \/ \E n \in Starters : DestroyNodeDelete(n)
    \/ \E n \in Starters : DestroyNodeSet(n)
    \/ Advance

SpecRenewal ==
    /\ Unstarted([n \in Nodes |-> n], {FALSE}, "new")
    /\ keep_old_parameters = [n \in Nodes |-> FALSE]
    /\ redis_nodes = <<>>
    /\ redis_parameters = <<>>
    /\ parameters = <<>>
    /\ [][NextRenewal]_vars
\* ------------------------------------------------------------------------
\* Startup: a node is started under a name that has a presence record, left
\* by a node that ended without destroy_node or kept by a node that runs
\* ------------------------------------------------------------------------

\* The node that wrote the record has ended and has left a parameter; two
\* nodes are about to be started under its name, both with or both without
\* skip_registration and keep_old_parameters.
SpecStartup ==
    /\ Unstarted(PresenceNames, BOOLEAN, "new")
    /\ keep_old_parameters \in {[n \in Nodes |-> k] : k \in BOOLEAN}
    /\ \E t \in 1..RecordExpiry :
            redis_nodes = ("a" :> [info |-> NoInformation, ttl |-> t])
    /\ redis_parameters =
            (parameter_key("a", <<"p">>) :>
                json_dumps_members(PyDict([value |-> PyInt, description |-> PyNone])))
    /\ parameters = (<<"a", <<"p">>>> :> PyInt)
    /\ [][NextPresence]_vars


\* ------------------------------------------------------------------------
\* Teardown: two registered nodes in one process, each with subscriptions,
\* and a node in another process that publishes to them; the nodes end by
\* destroy_node, by a message on "nv_terminate" or by a signal
\* ------------------------------------------------------------------------

\* What a node publishes on "nv_terminate" to end the node named node_name.
TerminateMessage(node_name) ==
    PyDict([node |-> PyText(<<node_name>>), reason |-> PyText(<<"r">>)])

\* The constructors have returned, in ConstructionOrder: the subscribing nodes
\* are registered, their records are new and their renewal timers have begun
\* to wait; the publishing node was built with skip_registration=True.  Each
\* subscribing node has then called create_subscription on the published
\* names, in the same order.
InitTeardown ==
    /\ Idle
    /\ name = [n \in Nodes |-> n]
    /\ proc = PubSubProc
    /\ workspace = [n \in Nodes |-> NoWorkspace]
    /\ skip_registration = [n \in Nodes |-> n \in Publishers]
    /\ keep_old_parameters = [n \in Nodes |-> FALSE]
    /\ mpc = [n \in Nodes |-> "ready"]
    /\ subscriptions = [n \in Nodes |->
            IF n \in Subscribers
            THEN [t \in PublishedNames |-> <<UserCallback(n)>>] @@ InitialSubscriptions(n)
            ELSE InitialSubscriptions(n)]
    /\ channels = [p \in Procs |->
            IF p = "p1"
            THEN [t \in PublishedNames |-> "n2"]
                    @@ InitialChannels(p, PubSubProc, Len(ConstructionOrder))
            ELSE InitialChannels(p, PubSubProc, Len(ConstructionOrder))]
    /\ loop = [p \in Procs |-> "running"]
    /\ signal_handler =
            [p \in Procs |-> LastConstructed(p, PubSubProc, Len(ConstructionOrder))]
    /\ node_registered = [n \in Nodes |-> n \in Subscribers]
    /\ hb = [n \in Nodes |->
            IF n \in Subscribers
            THEN [NoTimer EXCEPT !.pc = "wait", !.remaining = RenewInterval]
            ELSE NoTimer]
    /\ redis_nodes = [k \in Subscribers |-> [info |-> NoInformation, ttl |-> RecordExpiry]]
    /\ redis_parameters = <<>>
    /\ parameters = <<>>

\* Ending by destroy_node and by signal, with the renewal timers running.
NextTeardown ==
    \/ \E n \in Subscribers : HeartbeatWake(n)
    \/ \E n \in Subscribers : HeartbeatWrite(n)
    \/ \E n \in Subscribers : DestroyNodeStop(n)
    \/ \E n \in Subscribers : DestroyNodeDelete(n)
    \/ \E n \in Subscribers : DestroyNodeSet(n)
    \/ \E n \in Subscribers : Spin(n)
    \/ \E n \in Subscribers : SpinReturn(n)
    \/ \E n \in Subscribers : Sigterm(n)
    \/ \E n \in Subscribers : SigtermExit(n)
    \/ Advance

SpecTeardown == InitTeardown /\ [][NextTeardown]_vars

\* Ending by destroy_node and by a message on "nv_terminate", with messages
\* published on the subscribed topic before and after.
NextTerminate ==
    \/ \E n \in Publishers, t \in PublishedNames : Publish(n, t, PyInt)
    \/ \E n \in Publishers, m \in Subscribers :
            Publish(n, TerminateTopic, TerminateMessage(name[m]))
    \/ \E p \in Procs : Dispatch(p)
    \/ \E m \in Messages : TerminateStop(m)
    \/ \E m \in Messages : TerminateDelete(m)
    \/ \E m \in Messages : TerminateSet(m)
    \/ \E n \in Subscribers : DestroyNodeStop(n)
    \/ \E n \in Subscribers : DestroyNodeDelete(n)
    \/ \E n \in Subscribers : DestroyNodeSet(n)
    \/ \E n \in Subscribers : Spin(n)
    \/ \E n \in Subscribers : SpinReturn(n)

SpecTerminate == InitTeardown /\ [][NextTerminate]_vars

\* ------------------------------------------------------------------------
\* Topic names: nodes with and without a workspace publish on names of every
\* form get_absolute_topic tells apart
\* ------------------------------------------------------------------------

\* A plain name, a name relative to the node, two names that begin with the
\* workspace, and a relative name whose rest is the workspace.
ResolvedNames ==
    {<<"t">>, <<".", "t">>, <<"w", ".", "t">>, <<"w", "t">>, <<".", "w">>}

\* Every node is in a workspace of its own choice.

NextTopicNames == \E n \in Nodes, t \in ResolvedNames : Publish(n, t, PyInt)

SpecTopicNames ==
    /\ Constructed(PubSubProc, [Nodes -> Workspaces])
    /\ [][NextTopicNames]_vars

\* ------------------------------------------------------------------------
\* Subscriptions: two nodes of one process subscribe callbacks to topics and
\* take them away again
\* ------------------------------------------------------------------------

\* The functions the users pass to create_subscription.
SubscriptionCallbacks == {UserCallback("f"), UserCallback("g")}

NextSubscriptions ==
    \/ \E n \in Subscribers, t \in TopicNames, f \in SubscriptionCallbacks :
            CreateSubscriptionSubscribe(n, t, f)
    \/ \E n \in Subscribers : CreateSubscriptionAppend(n)
    \/ \E n \in Subscribers, h \in 1..Cardinality(SubscriptionCallbacks) : Unsubscribe(n, h)
    \/ \E n \in Subscribers, t \in TopicNames : DestroySubscription(n, t)

\* The constructors have returned; no node is in a workspace.
SpecSubscriptions ==
    /\ Constructed(PubSubProc, {[n \in Nodes |-> NoWorkspace]})
    /\ [][NextSubscriptions]_vars

\* ------------------------------------------------------------------------
\* Parameters: two nodes set, read and delete parameters of their own and of
\* each other
\* ------------------------------------------------------------------------

\* A plain name and a subparameter.
ParameterNames == {<<"p">>, <<"q", ".", "r">>}
\* The entries set: values orjson stores and one it refuses; as node_name a
\* node or "", which stands for the default.
ParameterEntries ==
    [name : ParameterNames, value : {PyInt, PyNone, PyBytes},
     node_name : {"", "n1", "n2"}, description : {PyNone}]

\* Either node sets and deletes, alone or in batches of two entries for one
\* node; n1 reads.
NextParameters ==
    \/ \E n \in Subscribers, e \in ParameterEntries :
            SetParameter(n, e.name, e.value, e.node_name, e.description)
    \/ \E n \in Subscribers, e \in ParameterEntries, pn \in ParameterNames,
            v \in {PyInt, PyBytes} :
            SetParameters(n, <<e, [e EXCEPT !.name = pn, !.value = v]>>)
    \/ \E pn \in ParameterNames, nn \in {"", "n1", "n2"}, fail \in BOOLEAN :
            GetParameter("n1", pn, nn, fail)
    \/ \E n \in Subscribers, pn \in ParameterNames, nn \in {"", "n1", "n2"} :
            DeleteParameter(n, pn, nn)
    \/ \E n \in Subscribers, nn \in {"", "n1", "n2"} :
            DeleteParameters(n, [none |-> TRUE, list |-> {}], nn)

\* The constructors have returned; no node is in a workspace.
SpecParameters ==
    /\ Constructed(PubSubProc, {[n \in Nodes |-> NoWorkspace]})
    /\ [][NextParameters]_vars

\* ------------------------------------------------------------------------
\* Parameter files: n1 sets parameters from files with a conditional key,
\* changes the environment variable of the condition and sets them again
\* ------------------------------------------------------------------------

\* The files: node n1's parameters p and q.r under its plain key, and a
\* parameter c under a key of n1 or n2 with a condition on E, before or after
\* the plain key.
ParameterFiles ==
    LET plain == [key |-> <<"n1">>,
                  value |-> [type |-> "dict", items |->
                                    <<[key |-> <<"p">>, value |-> PyInt],
                                      [key |-> <<"q">>, value |->
                                        [type |-> "dict", items |->
                                            <<[key |-> <<"r">>, value |-> PyStr]>>]]>>]]
        conditions == {<<"${", "E", "}">>,
                       <<"${", "E", "}", "==", "'", "123", "'">>,
                       <<"${", "E", "}", "!=", "'", "123", "'">>}
        guarded == {[key |-> <<node_name, "(">> \o c \o <<")">>,
                     value |-> [type |-> "dict", items |->
                                    <<[key |-> <<"c">>, value |-> PyList]>>]] :
                        node_name \in {"n1", "n2"}, c \in conditions}
    IN  {<<plain, g>> : g \in guarded} \cup {<<g, plain>> : g \in guarded}

NextParameterFiles ==
    \/ \E filepath \in ParameterFiles : SetParametersFromFile("n1", filepath)
    \/ \E value \in {"", "123"} : Setenv("n1", value)
    \/ \E nn \in {"", "n2"} : DeleteParameters("n1", [none |-> TRUE, list |-> {}], nn)

\* The constructors have returned; no node is in a workspace.
SpecParameterFiles ==
    /\ Constructed(PubSubProc, {[n \in Nodes |-> NoWorkspace]})
    /\ [][NextParameterFiles]_vars

\* ------------------------------------------------------------------------
\* Waiting for a service: the client waits for the service the server
\* creates, before, while or after it is created, and while its record
\* expires
\* ------------------------------------------------------------------------

\* The thread inside wait_for_service_ready runs: its sleep ends and the next
\* pass of its loop is made.  The timeouts are 0 s and 0.2 s.
NextWait ==
    \/ \E n \in Servers, s \in ServiceNames :
            CreateServiceSubscribe(n, s, Returns(PyInt), TRUE)
    \/ \E n \in Servers : CreateServiceRenew(n)
    \/ \E n \in Servers : CreateServiceLock(n)
    \/ \E c \in Calls, n \in Clients, s \in ServiceNames, timeout \in {0, 2} :
            WaitForServiceReady(c, n, s, timeout)
    \/ \E c \in Calls : WaitForServiceReadyPoll(c)
    \/ Advance

SpecWaitFair ==
    /\ InitService
    /\ [][NextWait]_vars
    /\ \A c \in Calls : WF_vars(WaitForServiceReadyPoll(c))

\* ------------------------------------------------------------------------
\* Two advertisers: the nodes n1 and n3 both create the service s, and the
\* client n2 calls it (allow_parallel_calls=True: no mutex is taken)
\* ------------------------------------------------------------------------

NextAdvertisers ==
    \/ \E n \in {"n1", "n3"}, s \in ServiceNames :
            CreateServiceSubscribe(n, s, Returns(PyInt), TRUE)
    \/ \E n \in {"n1", "n3"} : CreateServiceRenew(n)
    \/ \E n \in {"n1", "n3"} : CreateServiceLock(n)
    \/ \E c \in Calls, n \in Clients, s \in ServiceNames : CallServiceResolve(c, n, s, PyInt)
    \/ \E c \in Calls : CallServicePublish(c)
    \/ \E c \in Calls : CallServiceWake(c)
    \/ \E c \in Calls : CallServiceTimeout(c)
    \/ \E p \in Procs : Dispatch(p)
    \/ \E c \in Calls : HandleServiceCallAcquire(c)
    \/ \E c \in Calls : HandleServiceCallReturn(c)
    \/ \E c \in Calls : HandleServiceCallPublish(c)
    \/ \E c \in Calls : HandleServiceCallback(c)
    \/ Advance

SpecAdvertisers == InitService /\ [][NextAdvertisers]_vars

\* ------------------------------------------------------------------------
\* Conditional start: two nodes with names of their own are constructed,
\* each of Node's class or of a class whose node_condition returns True from
\* its third call on, both with or both without skip_registration
\* ------------------------------------------------------------------------

NextCondition ==
    \/ \E n \in Starters, threshold \in {0, 2} : NodeCondition(n, threshold)
    \/ \E n \in Starters : NodeConditionWake(n)
    \/ \E n \in Starters : NodeInit(n)
    \/ \E n \in Starters : NodeRegister(n)
    \/ \E n \in Starters : NodeDeleteParameters(n)
    \/ \E n \in Starters : NodeInitPubSub(n)
    \/ \E n \in Starters : HeartbeatWake(n)
    \/ \E n \in Starters : HeartbeatWrite(n)
    \/ Advance

SpecCondition ==
    /\ Unstarted([n \in Nodes |-> n], BOOLEAN, "condition")
    /\ keep_old_parameters = [n \in Nodes |-> FALSE]
    /\ redis_nodes = <<>>
    /\ redis_parameters = <<>>
    /\ parameters = <<>>
    /\ [][NextCondition]_vars

\* ------------------------------------------------------------------------
\* Parameters of nodes whose names extend each other: nodes n1 and n2 are
\* constructed, then set parameters for themselves and for a node named
\* "n1.q", and delete all the parameters of n1 or of n2
\* ------------------------------------------------------------------------

NextNodeNames ==
    \/ \E n \in Starters : NodeInit(n)
    \/ \E n \in Starters : NodeRegister(n)
    \/ \E n \in Starters : NodeDeleteParameters(n)
    \/ \E n \in Starters : NodeInitPubSub(n)
    \/ \E n \in Starters, pn \in ParameterNames, v \in {PyInt, PyStr}, nn \in {"", "n1.q"} :
            SetParameter(n, pn, v, nn, PyNone)
    \/ \E n \in Starters, nn \in {"", "n1", "n2"} :
            DeleteParameters(n, [none |-> TRUE, list |-> {}], nn)

SpecNodeNames ==
    /\ Unstarted([n \in Nodes |-> n], {FALSE}, "new")
    /\ keep_old_parameters = [n \in Nodes |-> FALSE]
    /\ redis_nodes = <<>>
    /\ redis_parameters = <<>>
    /\ parameters = <<>>
    /\ [][NextNodeNames]_vars
\* ------------------------------------------------------------------------
\* Claims
\* ------------------------------------------------------------------------

InvocationsOf(o) ==
    {r \in BagToSet(received) : r.mid = o.mid /\ r.node = o.node /\ r.cb = o.cb}

Pending(o) ==
    \E i \in DOMAIN inbox[proc[o.node]] : inbox[proc[o.node]][i].mid = o.mid

\* C2: for every message published on a topic while a node holds a callback
\* for that topic, the callback is invoked exactly once for the message, with
\* a value equal to the published payload: never twice, never with another
\* value, and once the frame has left the pub/sub connection, once.
C2_CallbackInvokedOnceWithPayload ==
    \A o \in expected :
        /\ \A r \in InvocationsOf(o) : /\ r.value = published[o.mid].payload
                                       /\ CopiesIn(r, received) = 1
        /\ Cardinality(InvocationsOf(o)) <= 1
        /\ ~Pending(o) => Cardinality(InvocationsOf(o)) = 1

\* ------------------------------------------------------------------------
\* Claims about services
\* ------------------------------------------------------------------------

HandlerInvocations(c) == {i \in BagToSet(invocations) : i.request = c}

Replies(c) == {f \in BagToSet(sent) : f.by = "server" /\ f.request = c}

Executing(c) == srv[c].pc = "running"

SameService(c, d) ==
    /\ srv[c].node = srv[d].node
    /\ srv[c].service_name = srv[d].service_name

\* A worker that found the mutex of its service taken by another worker.
Contending(c) ==
    /\ srv[c].pc = "acquire"
    /\ ~srv[c].allow_parallel_calls
    /\ srv[c].service_name \in DOMAIN service_locks[srv[c].node]
    /\ service_locks[srv[c].node][srv[c].service_name] \notin {0, c}

\* C1: for a service created with allow_parallel_calls=False no two
\* executions of its handler overlap, whatever number of requests arrive
\* together; a request that finds the mutex taken is not refused: it is not
\* answered before its own handler execution, and it is executed only when
\* it holds the mutex.
C1_HandlerExecutionsDoNotOverlap ==
    /\ \A c, d \in Calls :
            (c # d /\ Executing(c) /\ Executing(d) /\ SameService(c, d))
                => srv[c].allow_parallel_calls
    /\ \A c \in Calls :
            /\ Replies(c) # {} => HandlerInvocations(c) # {}
            /\ Contending(c) => HandlerInvocations(c) = {} /\ Replies(c) = {}
            /\ (Executing(c) /\ ~srv[c].allow_parallel_calls)
                    => service_locks[srv[c].node][srv[c].service_name] = c

\* A request waits for the mutex while another request's handler runs.
C1_Witness ==
    \E c, d \in Calls : c # d /\ Executing(c) /\ Contending(d) /\ SameService(c, d)

Ended(c) == calls[c].pc \in {"returned", "ServiceErrorException", "ServiceTimeoutException"}

\* C3: every call_service that returns a value R corresponds to exactly one
\* invocation of the service's handler, on the node whose identifier the call
\* resolved, with the call's args, and that invocation returned R.
C3_ReturnedValueIsTheHandlersResult ==
    \A c \in Calls :
        calls[c].pc = "returned" =>
            /\ Cardinality(HandlerInvocations(c)) = 1
            /\ \A i \in HandlerInvocations(c) :
                    /\ CopiesIn(i, invocations) = 1
                    /\ service_id(i.node, i.service_name) = calls[c].service_id
                    /\ i.args = calls[c].args
            /\ srv[c].result = "success"
            /\ srv[c].returned = calls[c].value

\* The deadline of the wait has come and no reply has been recorded.
Overdue(c) ==
    /\ calls[c].pc = "wait"
    /\ calls[c].remaining = 0
    /\ ~service_requests[calls[c].node][c].event

\* C6: a call_service whose request has received no reply when the 10 s of
\* its wait are over raises ServiceTimeoutException: at the deadline the call
\* can always leave the wait (it does not block forever), a call leaving the
\* wait without a reply leaves it by raising ServiceTimeoutException and
\* with no value, and the wait is never longer than 10 s.
C6_NoReplyWithinDeadlineRaisesTimeout ==
    /\ [](\A c \in Calls :
            /\ Overdue(c) => ENABLED CallServiceTimeout(c)
            /\ calls[c].pc = "wait" => calls[c].remaining \in 0..ServiceTimeout
            /\ calls[c].pc = "ServiceTimeoutException" => calls[c].value = PyNone)
    /\ [][\A c \in Calls :
            (Overdue(c) /\ calls'[c].pc # "wait")
                => calls'[c].pc = "ServiceTimeoutException"]_vars

\* A call has raised ServiceTimeoutException.
C6_Witness == \E c \in Calls : calls[c].pc = "ServiceTimeoutException"

InFlight(c) == calls[c].pc \in {"publish", "wait"}

\* C7: after a call_service has ended (by a result, by ServiceErrorException
\* or by ServiceTimeoutException) its request_id is not in the node's
\* _service_requests, and that map is empty whenever no call is in flight.
C7_PendingCallsAreDrained ==
    /\ \A c \in Calls : Ended(c) => c \notin DOMAIN service_requests[calls[c].node]
    /\ (\A c \in Calls : ~InFlight(c)) => \A n \in Nodes : DOMAIN service_requests[n] = {}

\* The reply {"result": "error", "data": str(e), "request_id": ...} as sent.
ErrorReply(c) ==
    encode_pubsub_message(PyDict([result |-> PyText(<<"error">>),
                                  data |-> srv[c].callback_function.value,
                                  request_id |-> PyText(Uuid(c))]))

\* The handler of request c has raised and its wrapper is over.
RaisedAndOver(c) ==
    /\ srv[c].callback_function.raises
    /\ HandlerInvocations(c) # {}
    /\ srv[c].pc \notin {"running", "publish"}

\* C8: when a service handler raises, the server publishes exactly one
\* reply, on the caller's response_topic, with result 'error', str(e) as
\* data and the request's request_id; the exception does not leave the
\* wrapper; and a call_service that gets the reply while it waits raises
\* ServiceErrorException with that message (it never returns a value).
C8_HandlerErrorBecomesErrorReply ==
    \A c \in Calls :
        /\ RaisedAndOver(c) =>
            /\ srv[c].pc \in {"done", "release"}
            /\ Cardinality(Replies(c)) = 1
            /\ \A f \in Replies(c) :
                    /\ CopiesIn(f, sent) = 1
                    /\ f.ch = service_response_channel(calls[c].node)
                    /\ f.data = ErrorReply(c)
        /\ (srv[c].callback_function.raises /\ HandlerInvocations(c) # {}) =>
            /\ calls[c].pc # "returned"
            /\ calls[c].pc = "ServiceErrorException"
                    => calls[c].value = srv[c].callback_function.value

\* The name is in the services map of some presence record.
Advertised(service_name) ==
    \E k \in DOMAIN redis_nodes : service_name \in DOMAIN redis_nodes[k].info.services

Requests(c) == {f \in BagToSet(sent) : f.by = "client" /\ f.request = c}

BytesKey(c) == BytesPrefix \o Uuid(c)

\* C10: when the handler returns a byte string, a call_service that returns
\* returns a byte string equal to it; the bytes are stored in the topics
\* database under a key 'NV_BYTES:<uuid>' with an expiry of 60 s, the reply
\* carries that key as its data, and the client reads the bytes under it.
C10_BytesReplyEqualsHandlersBytes ==
    /\ \A c \in Calls :
            (calls[c].pc = "returned" /\ srv[c].returned.type = "bytes")
                => /\ calls[c].value = srv[c].returned
                   /\ \A f \in Replies(c) :
                        decode_pubsub_message(f.data).items.data = PyText(BytesKey(c))
    /\ \A c \in Calls :
            (srv[c].pc = "publish" /\ srv[c].returned.type = "bytes")
                => /\ BytesKey(c) \in DOMAIN redis_topics
                   /\ redis_topics[BytesKey(c)] =
                        [data |-> srv[c].returned.val, ttl |-> BytesExpiry]
    /\ \A k \in DOMAIN redis_topics :
            /\ StartsWith(k, BytesPrefix)
            /\ redis_topics[k].ttl \in 1..BytesExpiry

\* A call has returned the bytes its handler returned.
C10_Witness ==
    \E c \in Calls : /\ calls[c].pc = "returned"
                     /\ srv[c].returned.type = "bytes"
                     /\ calls[c].value.type = "bytes"

\* ------------------------------------------------------------------------
\* Claims about presence records
\* ------------------------------------------------------------------------

\* destroy_node has been called on n: it stops the renewal timer of a
\* registered node first, and it ends by setting the stopped event.
DestroyCalled(n) == hb[n].stopped \/ stopped[n]

\* n is registered and running.
Live(n) == node_registered[n] /\ ~DestroyCalled(n)

\* C4: for every registered node, from the completion of its registration
\* until destroy_node is called on it, a presence record exists under the
\* node's name in the nodes database.
C4_RecordExistsWhileLive ==
    \A n \in Nodes : Live(n) => name[n] \in DOMAIN redis_nodes

\* create_service(service_name, ...) has returned on n: the mutex, its last
\* statement, is in _service_locks.
ServiceCreated(n, service_name) == service_name \in DOMAIN service_locks[n]

\* C5: once create_service(name, ...) has returned on a registered running
\* node, the node's presence record maps name to the service's srv://
\* identifier, and it does so for as long as the node remains registered.
C5_RecordAdvertisesCreatedService ==
    \A n \in Nodes : \A s \in ServiceNames :
        (Live(n) /\ ServiceCreated(n, s)) =>
            /\ name[n] \in DOMAIN redis_nodes
            /\ s \in DOMAIN redis_nodes[name[n]].info.services
            /\ redis_nodes[name[n]].info.services[s] = services[n][s]

\* ------------------------------------------------------------------------
\* Name collision at startup
\* ------------------------------------------------------------------------

\* The step in which the constructor of n raises DuplicateNodeNameException.
C11_Raises(n) ==
    /\ mpc[n] = "sleep"
    /\ mpc'[n] = "DuplicateNodeNameException"

\* A node whose constructor has raised has written no presence record.
C11_RaisedWithoutRecord ==
    \A n \in Starters : mpc[n] = "DuplicateNodeNameException" =>
        ~node_registered[n] /\ hb[n] = NoTimer

\* C11: a node started under a name that has a presence record polls for the
\* record; when the record disappears within 10 s the node registers, and
\* the constructor raises DuplicateNodeNameException only when the record is
\* still there after 10 s, in which case the node has written no presence
\* record and deletes no parameter.
C11_DuplicateNameOnlyWhileRecordPresent ==
    /\ []C11_RaisedWithoutRecord
    /\ [][\A n \in Starters : C11_Raises(n) =>
            /\ check_node_exists(name[n])
            /\ UNCHANGED <<redis_nodes, parameterVars>>]_vars

\* C12: node names are unique across the broker: no two node instances of
\* one name are registered and running at the same time, also when their
\* constructors run interleaved.
C12_NoTwoLiveNodesOfOneName ==
    \A n, m \in Nodes :
        (n # m /\ name[n] = name[m]) => ~(Live(n) /\ Live(m))

\* ------------------------------------------------------------------------
\* Shutdown
\* ------------------------------------------------------------------------

\* Message mid asks node x to end, and was published while x
\* was registered and running.
C13_AsksToEnd(mid, x) ==
    /\ published[mid].ch = TerminateTopic
    /\ published[mid].payload = TerminateMessage(name[x])
    /\ x \in published[mid].running

\* The pub/sub loop of x's process has taken the frame of message mid.
C13_Taken(mid, x) ==
    \A i \in DOMAIN inbox[proc[x]] : inbox[proc[x]][i].mid # mid

\* C13: a message {node: X, reason: r} published on "nv_terminate" while a
\* registered node named X is running makes that node shut down, whichever
\* process hosts it: once its process has taken the message, destroy_node
\* runs on X, and when that has ended X's presence record is gone and the
\* event spin() waits for is set.
C13_TerminateMessageEndsTheNode ==
    \A mid \in DOMAIN published : \A x \in Nodes :
        (C13_AsksToEnd(mid, x) /\ C13_Taken(mid, x)) =>
            /\ term[mid].pc # "none"
            /\ term[mid].node = x
            /\ term[mid].pc = "done" =>
                    /\ name[x] \notin DOMAIN redis_nodes
                    /\ ~node_registered[x]
                    /\ stopped[x]

\* destroy_node of n is between its steps in the order the claim gives.
C14_InOrder(n) ==
    /\ mpc[n] = "destroy_node" =>
            hb[n].stopped /\ node_registered[n] /\ ~stopped[n]
    /\ mpc[n] = "destroy_node_set" => ~node_registered[n]
    /\ mpc[n] = "exit" => ~node_registered[n] /\ stopped[n]

\* What the steps of destroy_node on n leave behind, unless the process ends
\* under it.
C14_Steps(n) ==
    /\ (mpc[n] = "destroy_node" /\ mpc'[n] \notin {"destroy_node", "exited"}) =>
            /\ name[n] \in DOMAIN redis_nodes => name[n] \notin DOMAIN redis_nodes'
            /\ ~node_registered'[n]
            /\ stopped'[n] = stopped[n]
    /\ (mpc[n] = "destroy_node_set" /\ mpc'[n] \notin {"destroy_node_set", "exited"}) =>
            /\ stopped'[n]
            /\ ~node_registered'[n]
            /\ mpc'[n] = IF marg[n].signal THEN "exit" ELSE "ready"
    /\ (mpc[n] = "spin" /\ mpc'[n] = "ready") => stopped[n]
    /\ (mpc[n] = "sigterm_handler" /\ mpc'[n] \notin {"sigterm_handler", "exited"}) =>
            mpc'[n] \in {"destroy_node", "destroy_node_set"}
    /\ (mpc[n] # "exited" /\ mpc'[n] = "exited" /\ signal_handler[proc[n]] = n) =>
            mpc[n] = "exit"

C15_NoCallbackAfterTeardown ==
    \A r \in BagToSet(received) : r.node \notin published[r.mid].stopped

\* ------------------------------------------------------------------------
\* Topic names
\* ------------------------------------------------------------------------

\* The name begins with ".".
C16_Relative(topic_name) == StartsWith(topic_name, <<".">>)

\* C16 as stated: get_absolute_topic applied to a name that begins with "."
\* puts the node's name in the place of the leading ".", with no separator:
\* the result is the node name followed by the rest of the name.
C16_NodeNameReplacesTheDot ==
    \A i \in DOMAIN published :
        LET o == published[i]
        IN  (C16_Relative(o.topic_name) /\ workspace[o.node] = NoWorkspace) =>
                o.ch = <<name[o.node]>> \o Tail(o.topic_name)

\* C16, amended: get_absolute_topic applied to a name that begins with "."
\* puts the node's name before the name and keeps the ".", which so becomes
\* the separator: the result, before any workspace prefix, is the node name
\* followed by the whole name.
C16_NodeNamePrecedesTheDot ==
    \A i \in DOMAIN published :
        LET o == published[i]
            relative == <<name[o.node]>> \o o.topic_name
        IN  C16_Relative(o.topic_name) =>
                /\ workspace[o.node] = NoWorkspace => o.ch = relative
                /\ o.ch \in {relative, workspace[o.node] \o <<".">> \o relative}

\* A node has published on a name that begins with ".".
C16_Witness ==
    \E i \in DOMAIN published :
        /\ C16_Relative(published[i].topic_name)
        /\ workspace[published[i].node] = NoWorkspace

\* What the workspace rule makes of a name on node n: "W." is put before it
\* exactly when a workspace W is set and the name does not begin with W.
C17_InWorkspace(n, topic_name) ==
    IF workspace[n] # NoWorkspace /\ ~StartsWith(topic_name, workspace[n])
    THEN workspace[n] \o <<".">> \o topic_name
    ELSE topic_name

\* C17 as stated: a name that does not begin with "." gets "W." put before
\* it exactly when a workspace W is set and the name does not begin with W,
\* and is returned unchanged otherwise; a name that begins with "." gets the
\* node-name rewrite only, the workspace rule being the alternative to it.
C17_WorkspaceRuleIsAnAlternative ==
    \A i \in DOMAIN published :
        LET o == published[i]
        IN  IF C16_Relative(o.topic_name)
            THEN o.ch \in {<<name[o.node]>> \o o.topic_name,
                           <<name[o.node]>> \o Tail(o.topic_name)}
            ELSE o.ch = C17_InWorkspace(o.node, o.topic_name)

\* C17, amended: a name that does not begin with "." gets "W." put before it
\* exactly when a workspace W is set and the name does not begin with W, and
\* is returned unchanged otherwise; the workspace rule follows the
\* leading-"." rule and is applied to its result, so a name that begins with
\* "." gets the node-name rewrite and then the workspace prefix on the
\* same condition.
C17_WorkspaceRuleFollows ==
    \A i \in DOMAIN published :
        LET o == published[i]
        IN  IF C16_Relative(o.topic_name)
            THEN o.ch = C17_InWorkspace(o.node, <<name[o.node]>> \o o.topic_name)
            ELSE o.ch = C17_InWorkspace(o.node, o.topic_name)

\* A node in a workspace has published on a name that begins with "." and
\* on a name that begins with its workspace.
C17_Witness ==
    \E i, j \in DOMAIN published :
        /\ published[i].node = published[j].node
        /\ workspace[published[i].node] # NoWorkspace
        /\ C16_Relative(published[i].topic_name)
        /\ StartsWith(published[j].topic_name, workspace[published[j].node])

\* ------------------------------------------------------------------------
\* Service channels
\* ------------------------------------------------------------------------

\* C18: the channel a service request or reply is published on is a service
\* channel "srv://..." as it was named, not rewritten by topic-name
\* resolution, and no channel service messages are published on is in the
\* result of get_topics, whatever the workspaces of the nodes.
C18_ServiceChannelsAreNotRewritten ==
    \A f \in BagToSet(sent) :
        /\ StartsWith(f.ch, ServicePrefix)
        /\ f.ch \notin get_topics

\* ------------------------------------------------------------------------
\* Subscription handles
\* ------------------------------------------------------------------------

\* How many times callback cb is registered for topic_name in subs.
C19_Registered(subs, topic_name, cb) ==
    IF topic_name \in DOMAIN subs
    THEN Cardinality({i \in DOMAIN subs[topic_name] : subs[topic_name][i] = cb})
    ELSE 0

\* The keys of Node._subscriptions of any node, before or after the step.
C19_Topics ==
    UNION {DOMAIN subscriptions[n] \cup DOMAIN subscriptions'[n] : n \in Nodes}

\* unsubscribe() is called on the h-th handle of n: the handle's state or
\* its last result changes.  (A call that returns False again changes
\* nothing at all.)
C19_Call(n, h) == h \in DOMAIN handles[n] /\ handles'[n][h] # handles[n][h]

\* The step takes away one registration of the handle's pair and no other.
C19_RemovesThePair(n, h) ==
    \A m \in Nodes : \A t \in C19_Topics :
        \A cb \in SubscriptionCallbacks \cup {ResponseCallback, TerminateCallback} :
            C19_Registered(subscriptions'[m], t, cb) =
                IF /\ m = n
                   /\ t = handles[n][h].topic_name
                   /\ cb = handles[n][h].callback_function
                THEN C19_Registered(subscriptions[m], t, cb) - 1
                ELSE C19_Registered(subscriptions[m], t, cb)

\* C19: Subscription.unsubscribe() takes away exactly the one (topic,
\* callback) pair its handle was made for and leaves every other callback
\* of that topic and of every other topic registered; called again on the
\* same handle it returns False and changes nothing.
C19_UnsubscribeRemovesOnePair ==
    [][\A n \in Nodes : \A h \in DOMAIN handles[n] : C19_Call(n, h) =>
        LET sub == handles[n][h]
            returned == handles'[n][h].returned
        IN  /\ (sub.subscribed
                    /\ C19_Registered(subscriptions[n], sub.topic_name,
                                      sub.callback_function) > 0)
                    => returned = "True"
            /\ returned = "True" =>
                    /\ sub.subscribed /\ ~handles'[n][h].subscribed
                    /\ C19_RemovesThePair(n, h)
            /\ ~sub.subscribed => returned = "False"
            /\ returned # "True" =>
                    /\ handles'[n][h].subscribed = sub.subscribed
                    /\ UNCHANGED subscriptions
            /\ UNCHANGED <<channels, inbox>>
            /\ \A m \in Nodes : \A g \in DOMAIN handles[m] :
                    <<m, g>> # <<n, h>> => handles'[m][g] = handles[m][g]]_vars

\* A handle has taken its pair away from a topic that keeps another callback,
\* and has been called again.
C19_Witness ==
    \E n \in Nodes : \E h \in DOMAIN handles[n] :
        /\ handles[n][h].returned = "False"
        /\ handles[n][h].topic_name \in DOMAIN subscriptions[n]
        /\ subscriptions[n][handles[n][h].topic_name] # <<>>

\* ------------------------------------------------------------------------
\* Parameters
\* ------------------------------------------------------------------------

\* C20: after set_parameter(name, v, node), or a set_parameters batch with
\* that entry, get_parameter(name, node) returns a value equal to v until
\* the parameter is set again or deleted; without node the calling node's
\* name is taken, in the writing and in the reading.
C20_GetReturnsTheValueSet ==
    \A k \in DOMAIN parameters : \A n \in Nodes :
        /\ get_parameter(n, k[2], k[1], FALSE) = parameters[k]
        /\ get_parameter(n, k[2], k[1], TRUE) = parameters[k]
        /\ k[1] = name[n] => get_parameter(n, k[2], "", FALSE) = parameters[k]

\* Parameters of two nodes, a plain one and a subparameter, are stored with
\* different values.
C20_Witness ==
    /\ <<"n1", <<"p">>>> \in DOMAIN parameters
    /\ <<"n2", <<"q", ".", "r">>>> \in DOMAIN parameters
    /\ parameters[<<"n1", <<"p">>>>] # parameters[<<"n2", <<"q", ".", "r">>>>]


\* ------------------------------------------------------------------------
\* C21 (SpecParameters)
\* ------------------------------------------------------------------------

\* The parameter (node, name) is not there: never set, or deleted since it
\* was last set.
C21_Missing(node_name, parameter_name) ==
    <<node_name, parameter_name>> \notin DOMAIN parameters

\* The step is a call of get_parameter by n.
C21_Reads(n) == marg'[n] # marg[n] /\ marg'[n].read.name # <<>>

\* C21: get_parameter for a parameter that does not exist, one that was
\* deleted included, returns None when fail_if_not_found is false and raises
\* ParameterNotFoundException when it is true, and no call of get_parameter
\* changes the parameter store.
C21_MissingParameterIsNoneOrRaises ==
    [][\A n \in Nodes :
        C21_Reads(n) =>
            /\ redis_parameters' = redis_parameters
            /\ C21_Missing(parameter_node(n, marg'[n].read.node_name), marg'[n].read.name) =>
                    IF marg'[n].read.fail_if_not_found
                    THEN marg'[n].returned.type = "ParameterNotFoundException"
                    ELSE marg'[n].returned = PyNone]_vars

\* n1 asked for a parameter of n2 that is not there, while another one of n2
\* is, and the call raised.
C21_Witness ==
    /\ C21_Missing("n2", <<"p">>)
    /\ ~C21_Missing("n2", <<"q", ".", "r">>)
    /\ marg["n1"].read = [name |-> <<"p">>, node_name |-> "n2", fail_if_not_found |-> TRUE]
    /\ marg["n1"].returned.type = "ParameterNotFoundException"

\* ------------------------------------------------------------------------
\* C22 (SpecParameters)
\* ------------------------------------------------------------------------

\* The names of the parameters set under a node and not deleted since.
C22_Stored(node_name) == {k[2] : k \in {k \in DOMAIN parameters : k[1] = node_name}}

\* C22: a call of delete_parameters without names, for the calling node or for
\* the node given, leaves none of the parameters that were stored under that
\* node: get_parameter returns None for each of them and get_parameters for
\* that node is empty.
C22_DeleteWithoutNamesEmptiesTheNode ==
    [][\A n \in Nodes, nn \in {"", "n1", "n2"} :
        DeleteParameters(n, [none |-> TRUE, list |-> {}], nn) =>
            /\ \A pn \in C22_Stored(parameter_node(n, nn)) :
                    /\ get_parameter(n, pn, nn, FALSE)' = PyNone
                    /\ \A m \in Nodes : get_parameter(m, pn, parameter_node(n, nn), FALSE)' = PyNone
            /\ get_parameters(n, nn)' = <<>>
            /\ \A m \in Nodes : get_parameters(m, parameter_node(n, nn))' = <<>>]_vars

\* n2's last call was delete_parameters() for itself, n1 had read 123 as n2's
\* parameter q.r before, and now n2 has no parameter while n1 has one.
C22_Witness ==
    /\ marg["n2"].delete = [none |-> TRUE, node_name |-> ""]
    /\ marg["n1"].read = [name |-> <<"q", ".", "r">>, node_name |-> "n2",
                          fail_if_not_found |-> FALSE]
    /\ marg["n1"].returned = PyInt
    /\ C22_Stored("n2") = {}
    /\ get_parameters("n2", "") = <<>>
    /\ C22_Stored("n1") # {}

\* ------------------------------------------------------------------------
\* C23 (SpecStartup)
\* ------------------------------------------------------------------------

\* The constructor of n has returned and n has done nothing since.
C23_Constructed(n) == mpc[n] = "ready"

\* Nothing is stored under the name of n.
C23_Empty(n) == scan_parameters(name[n]) = {} /\ get_parameters(n, "") = <<>>

\* The parameter stored under the name of n before startup is there.
C23_Preserved(n) ==
    /\ DOMAIN get_parameters(n, "") = {<<"p">>}
    /\ get_parameter(n, <<"p">>, "", FALSE) = PyInt

\* C23 as stated: a node constructed with keep_old_parameters=False starts
\* with nothing stored under its name, and a node constructed with
\* keep_old_parameters=True finds what was stored before startup.
C23_KeepOldParametersDecides ==
    \A n \in Starters :
        C23_Constructed(n) =>
            IF keep_old_parameters[n] THEN C23_Preserved(n) ELSE C23_Empty(n)

\* C23 amended: a node constructed with keep_old_parameters=False that
\* registers (skip_registration=False) starts with nothing stored under its
\* name; a node constructed with keep_old_parameters=True, or with
\* skip_registration=True, finds what was stored before startup.
C23_KeepOldParametersDecidesWhenRegistering ==
    \A n \in Starters :
        C23_Constructed(n) =>
            IF keep_old_parameters[n] \/ skip_registration[n]
            THEN C23_Preserved(n)
            ELSE C23_Empty(n)

\* A registering node built with keep_old_parameters=False has been
\* constructed, and the parameter left under its name is gone.
C23_Witness ==
    \E n \in Starters :
        /\ C23_Constructed(n)
        /\ ~keep_old_parameters[n]
        /\ ~skip_registration[n]
        /\ node_registered[n]
        /\ C23_Empty(n)
        /\ parameters = <<>>

\* ------------------------------------------------------------------------
\* C24, C25 (SpecParameterFiles)
\* ------------------------------------------------------------------------

\* The step is a call of set_parameters_from_file by n.
C24_Loads(n) == marg'[n] # marg[n] /\ marg'[n].filepath # <<>>

\* The items of a file whose key has a condition, and the others.
C24_Conditional(filepath) == {i \in DOMAIN filepath : Len(filepath[i].key) > 1}

\* The condition of such a key holds in the environment of n.
C24_Holds(n, key) == eval_condition(SubSeq(key, 3, Len(key) - 1), environ[proc[n]])

\* C24: whenever a file is loaded, the subtree of each top-level key whose
\* condition is false in the environment of that moment is left out of what
\* is loaded, and the subtree of each top-level key whose condition is true is
\* in it under the key without the condition.
C24_ConditionalSubtreeFollowsTheCondition ==
    [][\A n \in Nodes :
        C24_Loads(n) =>
            \A i \in C24_Conditional(marg'[n].filepath) :
                LET item == marg'[n].filepath[i]
                IN  IF C24_Holds(n, item.key)
                    THEN [key |-> <<item.key[1]>>, value |-> item.value]
                            \in Range(marg'[n].parameters)
                    ELSE \A loaded \in Range(marg'[n].parameters) :
                            loaded.key # item.key /\ loaded.value # item.value]_vars

\* The leaves a file places under its unconditional keys.
C25_Leaves(filepath) ==
    UNION {Range(convert_to_parameter_list(<<filepath[i]>>, "", <<>>)) :
                i \in DOMAIN filepath \ C24_Conditional(filepath)}

\* C25: after set_parameters_from_file, get_parameters of the node has every
\* leaf the file places under an unconditional key of that node, with the
\* value of the file, whatever the conditional keys of the file and however
\* their conditions evaluate.
C25_UnconditionalLeavesAreSet ==
    [][\A n \in Nodes :
        C24_Loads(n) =>
            \A leaf \in C25_Leaves(marg'[n].filepath) :
                /\ leaf.name \in DOMAIN get_parameters(n, leaf.node_name)'
                /\ get_parameters(n, leaf.node_name)'[leaf.name] = leaf.value]_vars

\* ------------------------------------------------------------------------
\* C26 (SpecPubSub)
\* ------------------------------------------------------------------------

\* The values of the supported set: what orjson serialises, and bytes.
C26_Supported(v) == JsonSerialisable(v) \/ v.type = "bytes"

\* C26: for every published value of the supported set, decoding its encoding
\* yields an equal value of the same type, and every callback invoked for the
\* message gets such a value; a byte string is received as a byte string.
C26_DecodeOfEncodeIsTheValue ==
    /\ \A i \in DOMAIN published :
            C26_Supported(published[i].payload) =>
                decode_pubsub_message(encode_pubsub_message(published[i].payload))
                    = published[i].payload
    /\ \A r \in BagToSet(received) :
            published[r.mid].payload.type = "bytes" => r.value.type = "bytes"

\* ------------------------------------------------------------------------
\* C27 (SpecRenewal): the LoopTimer that renews the presence record, made by
\* _register_node with immediate=True and without a termination event
\* ------------------------------------------------------------------------

\* stop() has been called on the timer of n and its loop has not exited.
C27_Stopping(n) == hb[n].stopped /\ hb[n].pc \in {"wait", "write"}

C28_Blocked(p) ==
    \E c \in Calls :
        \/ srv[c].pc \in {"acquire", "running"} /\ proc[srv[c].node] = p
        \/ calls[c].pc = "wait" /\ proc[calls[c].node] = p

\* C28: a callback that blocks does not block the receive loop: whenever a
\* frame has arrived at a process whose loop runs, the loop can take it and
\* start its callbacks although threads of the process are blocked, and it
\* does so before any time passes, so a reply that has arrived is never left
\* waiting for a blocked callback.
C28_BlockedCallbackDoesNotBlockTheLoop ==
    [][\A p \in Procs :
        (loop[p] = "running" /\ inbox[p] # <<>> /\ C28_Blocked(p)) =>
            /\ ENABLED Dispatch(p)
            /\ ~Advance]_vars

\* Two requests were dispatched to callback threads of the server, the later
\* while the handler of the earlier was still running, and both callers are
\* blocked in call_service.
C28_Witness ==
    \E c, d \in Calls :
        /\ c # d
        /\ srv[c].pc = "running"
        /\ srv[d].pc \in {"acquire", "running"}
        /\ calls[c].pc = "wait"
        /\ calls[d].pc = "wait"
        /\ loop[proc[srv[c].node]] = "running"

\* ------------------------------------------------------------------------
\* C29 (SpecPubSub)
\* ------------------------------------------------------------------------

\* The frame of message mid has been handed to a callback in process p.
C29_Handed(mid, p) == \E r \in BagToSet(received) : r.mid = mid /\ proc[r.node] = p

\* C29: a frame that the receive loop of a process hands to callbacks is
\* handed to every callback that any Node instance of the process had
\* registered for its channel when it was published: the subscription of one
\* instance does not take the delivery away from another instance.
C29_FrameReachesEveryInstance ==
    \A o \in expected :
        C29_Handed(o.mid, proc[o.node]) =>
            \E r \in BagToSet(received) : r.mid = o.mid /\ r.node = o.node /\ r.cb = o.cb

\* ------------------------------------------------------------------------
\* C30 (SpecService)
\* ------------------------------------------------------------------------

\* The call has left its wait with a reply.
C30_Answered(c) == calls[c].pc \in {"returned", "ServiceErrorException"}

\* What a caller gets from the data of a reply: the data, or for a text that
\* begins with "NV_BYTES:" what is stored under it.
C30_Carries(data, value) ==
    IF data.type = "str" /\ StartsWith(data.val, BytesPrefix)
    THEN value.type \in {"bytes", "NoneType"}
    ELSE value = data

\* C30: with several calls of one node in flight on the node's one reply
\* channel, a call that leaves its wait with a reply has the data of a reply
\* that the server sent with the call's own request_id, in whatever order
\* the replies arrive.
C30_ReplyGoesToItsOwnCall ==
    \A c \in Calls :
        C30_Answered(c) =>
            \E f \in Replies(c) :
                LET reply == decode_pubsub_message(f.data).items
                IN  /\ reply.request_id = PyText(Uuid(c))
                    /\ (reply.result = PyText(<<"error">>))
                            = (calls[c].pc = "ServiceErrorException")
                    /\ C30_Carries(reply.data, calls[c].value)

\* Two calls of n2 were in flight together: the later one has returned with
\* its reply while the earlier one still waits for its own.
C30_Witness ==
    \E c, d \in Calls :
        /\ c < d
        /\ calls[c].node = "n2"
        /\ calls[d].node = "n2"
        /\ calls[c].pc = "wait"
        /\ ~service_requests["n2"][c].event
        /\ calls[d].pc = "returned"
        /\ Replies(d) # {}
        /\ Replies(c) = {}


\* ------------------------------------------------------------------------
\* Claims about waiting for a service, service resolution and startup
\* ------------------------------------------------------------------------

C31_Waits(c) == calls[c].pc = "poll"

C31_Visible(c) ==
    \E k \in DOMAIN redis_nodes : calls[c].service_name \in DOMAIN redis_nodes[k].info.services

\* The passes of the loop of call c: a pass that finds the name returns True
\* at once, a pass that does not find it raises exactly when the timeout is
\* used up, and any other pass takes a tenth of a second off the timeout.
C31_Pass(c) ==
    (C31_Waits(c) /\ calls'[c] # calls[c]) =>
        /\ C31_Visible(c) =>
                /\ calls'[c].pc = "returned"
                /\ calls'[c].value = [type |-> "bool", val |-> <<"true">>]
        /\ (~C31_Visible(c) /\ calls[c].timeout <= 0) =>
                calls'[c].pc = "ServiceNotFoundException"
        /\ (~C31_Visible(c) /\ calls[c].timeout > 0) =>
                /\ calls'[c].pc = "poll"
                /\ calls'[c].timeout = calls[c].timeout - 1

C32_Resolved(c) == calls[c].service_id # <<>>

\* The places, in the records call c went through, of those that had the
\* service.
C32_Has(c) ==
    {i \in DOMAIN calls[c].scan : calls[c].service_name \in DOMAIN calls[c].scan[i].info.services}

\* The request of call c was published once at most, and a handler was run
\* for it on no node but node_name.
C32_SentOnlyTo(c, node_name) ==
    /\ Cardinality(Requests(c)) <= 1
    /\ \A f \in Requests(c) : CopiesIn(f, sent) = 1
    /\ \A i \in HandlerInvocations(c) : i.node = node_name
    /\ srv[c].pc # "none" => srv[c].node = node_name

\* C32 as stated: the name is resolved to the identifier in the first record
\* of the scan that advertises it, and the request goes to that node only.
C32_ResolvesToTheFirstAdvertiser ==
    \A c \in Calls :
        C32_Resolved(c) =>
            \E i \in C32_Has(c) :
                /\ \A j \in C32_Has(c) : i <= j
                /\ calls[c].service_id = calls[c].scan[i].info.services[calls[c].service_name]
                /\ C32_SentOnlyTo(c, calls[c].scan[i].node)

\* C32: when several nodes advertise the same service name, call_service
\* resolves the name to the service identifier in the last record that
\* advertises it in the order in which the presence records are scanned, and
\* the request is published once and handled by no node but that one.
C32_ResolvesToTheLastAdvertiser ==
    \A c \in Calls :
        C32_Resolved(c) =>
            \E i \in C32_Has(c) :
                /\ \A j \in C32_Has(c) : j <= i
                /\ calls[c].service_id = calls[c].scan[i].info.services[calls[c].service_name]
                /\ C32_SentOnlyTo(c, calls[c].scan[i].node)

\* A call that found two advertisers was handled on the node of the second.
C32_Witness ==
    \E c \in Calls :
        /\ Cardinality(C32_Has(c)) = 2
        /\ \E i \in HandlerInvocations(c) : i.node = calls[c].scan[2].node
        /\ calls[c].pc = "returned"

\* The constructor of node n has not got a True from node_condition yet.
C33_Held(n) == mpc[n] \in {"condition", "condition_sleep"}

\* Nothing of node n is at the broker or in its process: no presence record,
\* no renewal timer, no subscription, no channel of its own, no loop started
\* by it.
C33_Untouched(n) ==
    /\ ~node_registered[n]
    /\ name[n] \notin DOMAIN redis_nodes
    /\ hb[n] = NoTimer
    /\ subscriptions[n] = <<>>
    /\ service_response_channel(n) \notin DOMAIN channels[proc[n]]
    /\ (\A m \in Nodes : (m # n /\ proc[m] = proc[n]) => C33_Held(m))
            => /\ channels[proc[n]] = <<>>
               /\ loop[proc[n]] = "off"

\* The passes of the loop on node_condition: the constructor goes on after a
\* call that returned True, and after a call that returned False it sleeps
\* 10 s and calls again.
C33_Pass(n) ==
    /\ (mpc[n] = "condition" /\ mpc'[n] # "condition") =>
            /\ marg'[n].counter = marg[n].counter + 1
            /\ IF marg'[n].counter > marg'[n].threshold
               THEN mpc'[n] = "new"
               ELSE /\ mpc'[n] = "condition_sleep"
                    /\ marg'[n].remaining = ConditionSleep
    /\ (mpc[n] = "condition_sleep" /\ mpc'[n] # "condition_sleep") =>
            /\ mpc'[n] = "condition"
            /\ marg[n].remaining = 0
    /\ (~C33_Held(n) /\ mpc[n] # "new") => ~C33_Held(n)'

\* C33: the constructor calls node_condition again and again, 10 s apart,
\* until it returns True, and before the first call that returns True the
\* node has no presence record, no renewal timer and no subscription, and has
\* read and written nothing at the broker.
C33_NothingBeforeNodeConditionIsTrue ==
    /\ [](\A n \in Nodes : C33_Held(n) => C33_Untouched(n))
    /\ [][\A n \in Nodes : C33_Pass(n)]_vars

\* A node is registered after its node_condition was called three times,
\* while the other still sleeps after a call that returned False.
C33_Witness ==
    \E n, m \in Nodes :
        /\ node_registered[n]
        /\ marg[n].counter = 3
        /\ mpc[m] = "condition_sleep"
        /\ C33_Untouched(m)

\* C34: a successful reply whose data is not bytes is passed through: when
\* the handler returned a value that is not a byte string, text included, a
\* call_service that returns returns a value equal to it.
C34_NonBytesResultIsPassedThrough ==
    \A c \in Calls :
        (calls[c].pc = "returned" /\ HandlerInvocations(c) # {}
                /\ srv[c].returned.type # "bytes")
            => calls[c].value = srv[c].returned

\* C35: for a service created with allow_parallel_calls=False the mutex is
\* released at the end of every handler execution, whether the handler
\* returned or raised: a worker that has sent its reply and ended does not
\* hold the mutex of its service, so that a later request can take it.
C35_MutexIsReleasedAfterEveryExecution ==
    \A c \in Calls :
        (srv[c].pc = "done" /\ ~srv[c].allow_parallel_calls
                /\ srv[c].service_name \in DOMAIN service_locks[srv[c].node])
            => service_locks[srv[c].node][srv[c].service_name] # c

\* destroy_node has returned on node n, which was registered.
C36_Destroyed(n) == stopped[n] /\ hb[n].stopped

\* C36: once destroy_node has returned on a registered node, no presence
\* record is under the node's name, then and ever after, whatever the renewal
\* timer's thread was doing and whatever services are created later.
C36_NoRecordAfterDestroyNode ==
    \A n \in Nodes : C36_Destroyed(n) => name[n] \notin DOMAIN redis_nodes

\* C37: a node built with skip_registration=True has no presence record in
\* the nodes database, whatever it has published, subscribed, served or called.
C37_SkipRegistrationWritesNoRecord ==
    \A n \in Nodes : skip_registration[n] => name[n] \notin DOMAIN redis_nodes

\* Node n holds a live subscription made with create_subscription(topic_name, cb).
C38_Listens(n, topic_name) ==
    \E h \in DOMAIN handles[n] :
        handles[n][h].topic_name = topic_name /\ handles[n][h].subscribed

\* The frame of message mid has been put before process p on a channel
\* whose callbacks at node n include those registered under topic_name.
C38_Reaches(ib, n, mid, topic_name) ==
    \E i \in DOMAIN ib[proc[n]] :
        /\ ib[proc[n]][i].mid = mid
        /\ ib[proc[n]][i].ch \in DOMAIN subscriptions[n]
        /\ \E h \in DOMAIN handles[n] :
                /\ handles[n][h].topic_name = topic_name
                /\ \E k \in DOMAIN subscriptions[n][ib[proc[n]][i].ch] :
                        subscriptions[n][ib[proc[n]][i].ch][k] = handles[n][h].callback_function

C38_Sent(n, topic_name) ==
    /\ Len(published') = Len(published) + 1
    /\ published'[Len(published')].topic_name = topic_name
    /\ workspace[published'[Len(published')].node] = workspace[n]
    /\ ~StartsWith(topic_name, <<".">>)

\* C38: with publisher and subscriber in the same workspace, set or unset, a
\* message sent with publish(name, v) is put before every node that holds
\* a subscription made with create_subscription(name, cb), on a channel that
\* runs cb, for every name that does not begin with ".".
C38_PublishReachesSubscribersOfTheName ==
    [][\A n \in Nodes, topic_name \in TopicNames :
            (C38_Listens(n, topic_name) /\ C38_Sent(n, topic_name))
                => C38_Reaches(inbox', n, Len(published'), topic_name)]_vars

\* C39: a request that has been delivered to a service created with
\* allow_parallel_calls=False, and is about to take the service's mutex,
\* finds the mutex in _service_locks, create_service still running or not.
C39_MutexIsThereForEveryRequest ==
    \A c \in Calls :
        (srv[c].pc = "acquire" /\ ~srv[c].allow_parallel_calls)
            => srv[c].service_name \in DOMAIN service_locks[srv[c].node]

\* The node names parameters are stored for.
C40_NodeNames == {"n1", "n2", "n1.q"}

\* The parameters that were set for node M and not deleted since under any of
\* their names are stored after the step as they were before it.
C40_Untouched(M) ==
    \A k \in DOMAIN parameters :
        (k[1] = M /\ parameter_key(M, k[2]) \in DOMAIN redis_parameters)
            => /\ parameter_key(M, k[2]) \in DOMAIN redis_parameters'
               /\ redis_parameters'[parameter_key(M, k[2])] = redis_parameters[parameter_key(M, k[2])]

\* C40: delete_parameters(node_name=N) without names and the deletion at the
\* start of node N leave the parameters of every other node M as they were,
\* node names with a dot included, and get_parameters(node_name=N) returns
\* only names of parameters set for N.
C40_OtherNodesParametersAreLeftAlone ==
    /\ [][\A n \in Nodes, M \in C40_NodeNames :
            /\ \A nn \in {"", "n1", "n2"} :
                    (DeleteParameters(n, [none |-> TRUE, list |-> {}], nn)
                        /\ parameter_node(n, nn) # M) => C40_Untouched(M)
            /\ (NodeDeleteParameters(n) /\ name[n] # M) => C40_Untouched(M)]_vars
    /\ [](\A n \in Nodes, N \in C40_NodeNames :
            mpc[n] = "ready" =>
                \A pn \in DOMAIN get_parameters(n, N) : <<N, pn>> \in DOMAIN parameters)
====
